---- MODULE Spec2Model ----
(***************************************************************************)
(* A model of flux-interactive: the Fluid component's frame callback and   *)
(* pointer listeners (src/components/Fluid.tsx), the part of AudioService  *)
(* the frame callback and the UI use (same file, lines 531-767), and the   *)
(* App component's handlers (src/App.tsx).                                 *)
(*                                                                         *)
(* Render targets are modelled by their identity: a field's pair of        *)
(* buffers is a 2-element array whose order is the role (array index 0 is  *)
(* TLA+ index 1, the buffer passes sample; array index 1 is TLA+ index 2,  *)
(* the buffer passes render into).  Floating-point quantities that depend  *)
(* on the clock or on Math.random (agent positions, colours, radii) are    *)
(* not represented; the quantities the frame callback branches on are.     *)
(*                                                                         *)
(* The synth part of AudioService is the record `audio`: the objects it    *)
(* created (counted), its oscillator bank, and for each AudioParam the     *)
(* last value or target given to it, in integer units.  The run state of   *)
(* the AudioContext (resume, suspend) is not represented.                  *)
(*                                                                         *)
(* The contents of the textures are modelled, for one solver step, channel *)
(* by channel as terms over the contents at the start of the step          *)
(* (FieldSpec); two contents built by the same operations from the same    *)
(* channels and uniforms are the same content.                             *)
(***************************************************************************)
EXTENDS Integers, Sequences, FiniteSets, TLC

NULL == "null"

\* ---------------------------------------------------------------- bounds
\* Pointer events report client coordinates 0..MaxX by 0..MaxY, the pixels of
\* a canvas that fills the window.
MaxX == 1
MaxY == 1
\* playMusic calls that may be awaiting their promises at one time.
MaxPending == 1
\* Move events counted between two frame callbacks.
MaxMoves == 2
\* Objects of one kind (contexts, audio elements, running oscillators beyond
\* the bank) counted before the count saturates.
MaxCount == 2

\* ------------------------------------------------------ program constants
PressureIterations == 20
NumAgents == 7
DropParticleCount == 30
BassBins == 15
FftSize == 256
BassThreshold == 110
DropDelta == 20
NoiseFloor == 2
PointerGain == 5
SpeedDivisor == 20
\* The App's volume state when the start overlay is clicked (hundredths).
DefaultVolume == 50

FrequencyBinCount == FftSize \div 2

\* size.width and size.height of the canvas.
Width == MaxX + 1
Height == MaxY + 1

\* What the analyser holds in the model, <<lo, hi>>: every bin of the low band
\* (the first BassBins bins) holds the byte lo, every other bin the byte hi.
AnalyserLevels == {<<0, 0>>, <<50, 0>>, <<130, 0>>}
\* The contents the drop detection is checked on: around both thresholds.
DropLevels ==
    {<<0, 0>>, <<0, 3>>, <<50, 0>>, <<100, 0>>, <<110, 0>>, <<115, 0>>,
     <<130, 0>>, <<131, 0>>}

AmbienceIds == {"river", "forest"}

VARIABLES
    \* App.tsx state
    started, isPlayingMusic, activeAmbience,
    \* AudioService state
    isInitialized, musicElement, isMusicPlaying, pending, audio,
    \* Fluid.tsx refs
    velocity, density, pressure, pointer, lastBass, displaySource,
    \* the trace of the last step, of the frame callback that ran in it or of
    \* the playMusic call that settled in it; the number
    \* of move events since the last frame callback (at most MaxMoves are
    \* counted) and the client position the last move event reported
    frame, moves, lastMove

appVars == <<started, isPlayingMusic, activeAmbience>>
audioVars == <<isInitialized, musicElement, isMusicPlaying, pending, audio>>
fluidVars == <<velocity, density, pressure, pointer, lastBass, displaySource>>
histVars == <<moves, lastMove>>
vars == <<appVars, audioVars, fluidVars, frame, histVars>>

\* The single-buffered divergence target.
divergence == "div"

NoFrame == [ran |-> FALSE, settled |-> "none"]
Settled(outcome) == [ran |-> FALSE, settled |-> outcome]

\* Array.prototype.reverse on a two-element array.
Reverse2(a) == <<a[2], a[1]>>

Min(a, b) == IF a < b THEN a ELSE b

\* ------------------------------------------------------------ render passes
\* One draw of the full-screen quad with a material into a target.  The
\* record keeps the sampler uniforms the material holds at the draw, the
\* target, and the order of the three pairs at the draw.
renderPass(st, name, k, uniforms, target) ==
    [st EXCEPT !.passes = Append(@,
        [pass |-> name, k |-> k, uniforms |-> uniforms, write |-> target,
         velocity |-> st.velocity, density |-> st.density,
         pressure |-> st.pressure])]

\* applySplat without velocity.current.reverse().
applySplatNoSwap(st, ev) ==
    LET s1 == renderPass(st, "splatVelocity", 0,
                         [uTarget |-> st.velocity[1]], st.velocity[2])
        s3 == renderPass(s1, "splatDensity", 0,
                         [uTarget |-> s1.density[1]], s1.density[2])
        s4 == [s3 EXCEPT !.density = Reverse2(@)]
    IN  [s4 EXCEPT !.events = Append(@, ev)]

applySplat(st, ev) ==
    LET s1 == renderPass(st, "splatVelocity", 0,
                         [uTarget |-> st.velocity[1]], st.velocity[2])
        s2 == [s1 EXCEPT !.velocity = Reverse2(@)]
        s3 == renderPass(s2, "splatDensity", 0,
                         [uTarget |-> s2.density[1]], s2.density[2])
        s4 == [s3 EXCEPT !.density = Reverse2(@)]
    IN  [s4 EXCEPT !.events = Append(@, ev)]

\* ------------------------------------------------------------ forcing events
\* What a forcing event keeps of the arguments of applySplat: the driver that
\* emitted it, its index in that driver's loop and, for the pointer event, the
\* position (each coordinate a fraction <<numerator, denominator>>) and the
\* force vector.
AgentEvent(i) == [kind |-> "agent", i |-> i]
TrailEvent == [kind |-> "trail", i |-> 0]
BurstEvent(i) == [kind |-> "burst", i |-> i]
PointerSplat(p) ==
    [kind |-> "pointer", i |-> 0,
     u |-> <<p.x, Width>>, v |-> <<p.y, Height>>,
     force |-> <<p.dx * PointerGain, p.dy * PointerGain>>]

\* ------------------------------------------------------------ AudioService
\* The byte array getByteFrequencyData fills: FrequencyBinCount bins.
FrequencyData(lo, hi) ==
    [i \in 1..FrequencyBinCount |-> IF i <= BassBins THEN lo ELSE hi]

NullData == [null |-> TRUE]

\* getAudioData without the null guard on the analyser and its array.
getAudioDataUnguarded(lo, hi) ==
    [null |-> FALSE, bins |-> FrequencyData(lo, hi)]

\* getAudioData: null until init has created the analyser and its array.
getAudioData(lo, hi) ==
    IF ~isInitialized THEN NullData
    ELSE [null |-> FALSE, bins |-> FrequencyData(lo, hi)]

\* let sum = 0; for (let i = 0; i < n; i++) sum += audioData[i];
\* The sum of bins a..b of the array (integer addition: the order of the
\* additions does not change the sum, and halving keeps the evaluation
\* shallow).
RECURSIVE SumRange(_, _, _)
SumRange(bins, a, b) ==
    IF a > b THEN 0
    ELSE IF a = b THEN bins[a]
    ELSE LET mid == (a + b) \div 2
         IN  SumRange(bins, a, mid) + SumRange(bins, mid + 1, b)

SumBins(bins, n) == SumRange(bins, 1, n)

\* ------------------------------------------------- AudioService: the synth
\* Numbers are kept as integers: frequencies in hundredths of a hertz,
\* gains, delay settings and the master volume in hundredths, times in
\* hundredths of a second, Q in tenths, detune in cents.
InstrumentTypes == {"flux", "drone", "spark", "orbit"}

INSTRUMENTS ==
    [flux |->
        [oscillators |-> <<[type |-> "sine", freq |-> 26163, detune |-> 0],
                           [type |-> "sine", freq |-> 29366, detune |-> 5],
                           [type |-> "triangle", freq |-> 39200, detune |-> -5]>>,
         filter |-> [type |-> "lowpass", baseFreq |-> 20000, modFreq |-> 250000, Q |-> 5],
         gain |-> [base |-> 5, mod |-> 35, attack |-> 30],
         delay |-> [time |-> 40, feedback |-> 30, mix |-> 25]],
     drone |->
        [oscillators |-> <<[type |-> "sawtooth", freq |-> 6541, detune |-> 0],
                           [type |-> "sawtooth", freq |-> 13081, detune |-> 8],
                           [type |-> "square", freq |-> 9800, detune |-> -8]>>,
         filter |-> [type |-> "lowpass", baseFreq |-> 8000, modFreq |-> 80000, Q |-> 20],
         gain |-> [base |-> 10, mod |-> 30, attack |-> 10],
         delay |-> [time |-> 20, feedback |-> 40, mix |-> 10]],
     spark |->
        [oscillators |-> <<[type |-> "sine", freq |-> 52325, detune |-> 0],
                           [type |-> "sine", freq |-> 65925, detune |-> 0],
                           [type |-> "sine", freq |-> 98777, detune |-> 0]>>,
         filter |-> [type |-> "highpass", baseFreq |-> 200000, modFreq |-> -150000, Q |-> 10],
         gain |-> [base |-> 0, mod |-> 20, attack |-> 5],
         delay |-> [time |-> 25, feedback |-> 60, mix |-> 40]],
     orbit |->
        [oscillators |-> <<[type |-> "sine", freq |-> 13081, detune |-> 0],
                           [type |-> "sine", freq |-> 26163, detune |-> 2],
                           [type |-> "sine", freq |-> 52325, detune |-> -2]>>,
         filter |-> [type |-> "bandpass", baseFreq |-> 30000, modFreq |-> 100000, Q |-> 50],
         gain |-> [base |-> 5, mod |-> 40, attack |-> 50],
         delay |-> [time |-> 60, feedback |-> 50, mix |-> 30]]]

Inc(n) == Min(n + 1, MaxCount)

\* The fields of the service besides isInitialized, musicElement and
\* isMusicPlaying.  contexts, elements, sources and connects count the
\* AudioContexts, Audio elements and media-element source nodes created and
\* the connections of a source node to the analyser; live counts the
\* oscillators started and connected to the filter and neither stopped nor
\* disconnected since.  An AudioParam is kept as the last value or target
\* given to it.
NoNode == [node |-> FALSE]
Rest == <<0, 1>>
AudioInitial ==
    [contexts |-> 0, elements |-> 0, sources |-> 0, connects |-> 0,
     currentType |-> "flux", oscs |-> <<>>, live |-> 0,
     isMuted |-> FALSE, masterVolume |-> 50,
     globalGain |-> NoNode, mainGain |-> NoNode,
     mainFilter |-> NoNode, delay |-> NoNode]

\* The first part of init: the context and the static nodes.
createGraph(a) ==
    [a EXCEPT !.contexts = Inc(@),
              !.globalGain = [node |-> TRUE,
                              level |-> IF a.isMuted THEN 0 ELSE a.masterVolume],
              !.mainGain = [node |-> TRUE, op |-> "default"],
              !.mainFilter = [node |-> TRUE, op |-> "default"],
              !.delay = [node |-> TRUE, op |-> "default"]]

newOscillator(oscConfig) ==
    [type |-> oscConfig.type, freq |-> oscConfig.freq,
     detune |-> oscConfig.detune, wobble |-> [set |-> FALSE]]

\* setInstrument that leaves the old oscillators running and connected.
applyInstrumentLeaky(a, type) ==
    LET config == INSTRUMENTS[type]
    IN  [a EXCEPT
            !.currentType = type,
            !.live = Min(@ + Len(config.oscillators),
                         MaxCount * Len(config.oscillators)),
            !.oscs = [i \in 1..Len(config.oscillators) |->
                          newOscillator(config.oscillators[i])],
            !.mainFilter = [node |-> TRUE, op |-> "set",
                            type |-> config.filter.type,
                            frequency |-> config.filter.baseFreq,
                            Q |-> config.filter.Q],
            !.mainGain = [node |-> TRUE, op |-> "set", value |-> 0],
            !.delay = [node |-> TRUE, op |-> "set",
                       time |-> config.delay.time,
                       feedback |-> config.delay.feedback,
                       mix |-> config.delay.mix]]

\* setInstrument whose new bank lacks the preset's last oscillator.
applyInstrumentShortBank(a, type) ==
    LET config == INSTRUMENTS[type]
    IN  [a EXCEPT
            !.currentType = type,
            !.live = (@ - Len(a.oscs)) + Len(config.oscillators),
            !.oscs = [i \in 1..(Len(config.oscillators) - 1) |->
                          newOscillator(config.oscillators[i])],
            !.mainFilter = [node |-> TRUE, op |-> "set",
                            type |-> config.filter.type,
                            frequency |-> config.filter.baseFreq,
                            Q |-> config.filter.Q],
            !.mainGain = [node |-> TRUE, op |-> "set", value |-> 0],
            !.delay = [node |-> TRUE, op |-> "set",
                       time |-> config.delay.time,
                       feedback |-> config.delay.feedback,
                       mix |-> config.delay.mix]]

\* setInstrument on an initialized service: the old oscillators stopped and
\* disconnected, a new bank created from the preset, the filter, gain and
\* delay set from it.
applyInstrument(a, type) ==
    LET config == INSTRUMENTS[type]
    IN  [a EXCEPT
            !.currentType = type,
            !.live = (@ - Len(a.oscs)) + Len(config.oscillators),
            !.oscs = [i \in 1..Len(config.oscillators) |->
                          newOscillator(config.oscillators[i])],
            !.mainFilter = [node |-> TRUE, op |-> "set",
                            type |-> config.filter.type,
                            frequency |-> config.filter.baseFreq,
                            Q |-> config.filter.Q],
            !.mainGain = [node |-> TRUE, op |-> "set", value |-> 0],
            !.delay = [node |-> TRUE, op |-> "set",
                       time |-> config.delay.time,
                       feedback |-> config.delay.feedback,
                       mix |-> config.delay.mix]]

setInstrument(a, initialized, type) ==
    IF ~initialized
    THEN [a EXCEPT !.currentType = type]
    ELSE applyInstrument(a, type)

\* init applying the default preset instead of the remembered one.
audioInitDefault(a, initialized) ==
    IF initialized THEN a
    ELSE applyInstrument(createGraph(a), "flux")

\* init without the early return of an initialized service.
audioInitAgain(a, initialized) ==
    LET g == createGraph(a) IN applyInstrument(g, g.currentType)

\* init: nothing when already initialized, else the graph and the remembered
\* preset.
audioInit(a, initialized) ==
    IF initialized THEN a
    ELSE LET g == createGraph(a) IN applyInstrument(g, g.currentType)

setMute(a, mute) ==
    LET m == [a EXCEPT !.isMuted = mute]
    IN  IF a.globalGain.node
        THEN [m EXCEPT !.globalGain.level =
                           IF mute THEN 0 ELSE a.masterVolume]
        ELSE m

\* setMasterVolume without the test of isMuted.
setMasterVolumeWhileMuted(a, vol) ==
    LET m == [a EXCEPT !.masterVolume = vol]
    IN  IF a.globalGain.node
        THEN [m EXCEPT !.globalGain.level = vol]
        ELSE m

setMasterVolume(a, vol) ==
    LET m == [a EXCEPT !.masterVolume = vol]
    IN  IF a.globalGain.node /\ ~a.isMuted
        THEN [m EXCEPT !.globalGain.level = vol]
        ELSE m

\* The argument of update and the intensity are kept as their squares, the
\* fractions <<numerator, denominator>>: Math.min(velocity, 1.2) and
\* intensity > 0.001.
clampIntensity(v) == IF v[1] * 100 > 144 * v[2] THEN <<144, 100>> ELSE v
isActive(intensity) == intensity[1] * 1000000 > intensity[2]

\* Math.max(20, Math.min(20000, baseFreq + intensity * modFreq)): which side
\* of the clamp the target is on, decided on the squares, in units of 20 Hz.
safeFreq(filter, intensity) ==
    LET base == filter.baseFreq \div 2000
        mod == filter.modFreq \div 2000
        \* mod * intensity > room, for room >= 0 and mod >= 0
        Over(m, room) == m * m * intensity[1] > room * room * intensity[2]
    IN  IF mod >= 0 /\ Over(mod, 1000 - base)
        THEN [clamped |-> "max", value |-> 2000000]
        ELSE IF mod < 0 /\ Over(-mod, base - 1)
        THEN [clamped |-> "min", value |-> 2000]
        ELSE [clamped |-> "no", base |-> filter.baseFreq,
              mod |-> filter.modFreq, intensity |-> intensity]

\* update with the gain released at the preset's attack time constant.
applyUpdateReleaseAsAttack(a, speed) ==
    LET config == INSTRUMENTS[a.currentType]
        intensity == clampIntensity(speed)
        active == isActive(intensity)
    IN  [a EXCEPT
            !.mainGain =
                IF active
                THEN [node |-> TRUE, op |-> "target", base |-> config.gain.base,
                      mod |-> config.gain.mod, intensity |-> intensity,
                      ramp |-> config.gain.attack]
                ELSE [node |-> TRUE, op |-> "target", base |-> 0, mod |-> 0,
                      intensity |-> Rest, ramp |-> config.gain.attack],
            !.mainFilter =
                [node |-> TRUE, op |-> "target",
                 frequency |-> IF active
                               THEN safeFreq(config.filter, intensity)
                               ELSE safeFreq(config.filter, Rest),
                 ramp |-> 20],
            !.oscs = [i \in 1..Len(a.oscs) |->
                         [a.oscs[i] EXCEPT !.wobble =
                             [set |-> TRUE,
                              base |-> config.oscillators[i].detune,
                              dir |-> IF (i - 1) % 2 = 0 THEN 1 ELSE -1,
                              intensity |-> intensity, ramp |-> 50]]]]

\* update on an initialized service with the oscillators wobbling around the
\* base detune of the current preset's oscillator of the same index.
applyUpdate(a, speed) ==
    LET config == INSTRUMENTS[a.currentType]
        intensity == clampIntensity(speed)
        active == isActive(intensity)
    IN  [a EXCEPT
            !.mainGain =
                IF active
                THEN [node |-> TRUE, op |-> "target", base |-> config.gain.base,
                      mod |-> config.gain.mod, intensity |-> intensity,
                      ramp |-> config.gain.attack]
                ELSE [node |-> TRUE, op |-> "target", base |-> 0, mod |-> 0,
                      intensity |-> Rest, ramp |-> 50],
            !.mainFilter =
                [node |-> TRUE, op |-> "target",
                 frequency |-> IF active
                               THEN safeFreq(config.filter, intensity)
                               ELSE safeFreq(config.filter, Rest),
                 ramp |-> 20],
            !.oscs = [i \in 1..Len(a.oscs) |->
                         [a.oscs[i] EXCEPT !.wobble =
                             [set |-> TRUE,
                              base |-> config.oscillators[i].detune,
                              dir |-> IF (i - 1) % 2 = 0 THEN 1 ELSE -1,
                              intensity |-> intensity, ramp |-> 50]]]]

update(a, initialized, speed) ==
    IF ~initialized THEN a ELSE applyUpdate(a, speed)

\* The update calls a frame callback made, in their order.
RECURSIVE applyUpdates(_, _, _, _)
applyUpdates(a, initialized, updates, i) ==
    IF i > Len(updates) THEN a
    ELSE applyUpdates(update(a, initialized, updates[i]), initialized,
                      updates, i + 1)

\* ------------------------------------------------------- automated drivers
\* The agents loop stopping one agent short.
RECURSIVE AmbienceAgentsShort(_, _)
AmbienceAgentsShort(st, i) ==
    IF i >= NumAgents - 1 THEN st
    ELSE LET s1 == applySplat(st, AgentEvent(i))
         IN  IF Len(s1.events) > 0 THEN AmbienceAgentsShort(s1, i + 1) ELSE s1

RECURSIVE AmbienceAgents(_, _)
AmbienceAgents(st, i) ==
    IF i >= NumAgents THEN st
    ELSE LET s1 == applySplat(st, AgentEvent(i))
         IN  IF Len(s1.events) > 0 THEN AmbienceAgents(s1, i + 1) ELSE s1

RECURSIVE DropBurst(_, _)
DropBurst(st, i) ==
    IF i >= DropParticleCount THEN st
    ELSE LET s1 == applySplat(st, BurstEvent(i))
         IN  IF Len(s1.events) > 0 THEN DropBurst(s1, i + 1) ELSE s1

\* The drop test with a rise of exactly 20 counted as a drop.
isDropInclusive(bassSum, last) ==
    /\ bassSum > BassThreshold * BassBins
    /\ bassSum - last >= DropDelta * BassBins

\* bassAvg = bassSum / 15 and volAvg = volSum / length are kept as their
\* numerators: lastBass holds BassBins times the stored average.
isDrop(bassSum, last) ==
    /\ bassSum > BassThreshold * BassBins
    /\ bassSum - last > DropDelta * BassBins

aboveNoiseFloor(volSum, n) == volSum > NoiseFloor * n

\* The music driver with the burst drawn before the trail.
MusicSplatsBurstFirst(st, bassSum, volSum, n) ==
    LET s0 == [st EXCEPT !.snapshot =
                   [called |-> TRUE, null |-> FALSE,
                    bassSum |-> bassSum, volSum |-> volSum]]
        s1 == IF isDrop(bassSum, st.lastBass)
              THEN DropBurst(s0, 0) ELSE s0
        s2 == IF aboveNoiseFloor(volSum, n)
              THEN applySplat(s1, TrailEvent) ELSE s1
    IN  [s2 EXCEPT !.lastBass = bassSum]

\* The music driver once the snapshot is there, with the two sums computed.
MusicSplats(st, bassSum, volSum, n) ==
    LET s0 == [st EXCEPT !.snapshot =
                   [called |-> TRUE, null |-> FALSE,
                    bassSum |-> bassSum, volSum |-> volSum]]
        s1 == IF aboveNoiseFloor(volSum, n)
              THEN applySplat(s0, TrailEvent) ELSE s0
        s2 == IF isDrop(bassSum, st.lastBass)
              THEN DropBurst(s1, 0) ELSE s1
    IN  [s2 EXCEPT !.lastBass = bassSum]

MusicData(st, audioData) ==
    IF audioData.null
    THEN [st EXCEPT !.snapshot = [called |-> TRUE, null |-> TRUE]]
    ELSE MusicSplats(st, SumBins(audioData.bins, BassBins),
                     SumBins(audioData.bins, Len(audioData.bins)),
                     Len(audioData.bins))

MusicMode(st, lo, hi) == MusicData(st, getAudioData(lo, hi))

\* The automated part with the two drivers not exclusive of each other.
AutomatedSplatsBoth(st, isMusicActive, ambienceMode, lo, hi) ==
    IF isMusicActive
    THEN LET s1 == IF ambienceMode # NULL THEN AmbienceAgents(st, 0) ELSE st
         IN  MusicMode(s1, lo, hi)
    ELSE st

\* The automated part with the ambience branch clearing the stored low-band
\* average.
AutomatedSplatsForgetful(st, isMusicActive, ambienceMode, lo, hi) ==
    IF isMusicActive
    THEN IF ambienceMode # NULL
         THEN [AmbienceAgents(st, 0) EXCEPT !.lastBass = 0]
         ELSE MusicMode(st, lo, hi)
    ELSE st

AutomatedSplats(st, isMusicActive, ambienceMode, lo, hi) ==
    IF isMusicActive
    THEN IF ambienceMode # NULL
         THEN AmbienceAgents(st, 0)
         ELSE MusicMode(st, lo, hi)
    ELSE st

\* ------------------------------------------------------- input interaction
\* audioService.update(Math.min(velocityMag / 20, 1)): the argument is kept as
\* its square, a fraction <<numerator, denominator>>.
UpdateArg(dx, dy) ==
    <<Min(dx * dx + dy * dy, SpeedDivisor * SpeedDivisor),
      SpeedDivisor * SpeedDivisor>>

\* The input interaction without the reset of moved, dx and dy.
InputInteractionNoReset(st) ==
    IF st.pointer.moved
    THEN LET s1 == [st EXCEPT !.updates =
                        Append(@, UpdateArg(st.pointer.dx, st.pointer.dy))]
         IN  applySplat(s1, PointerSplat(st.pointer))
    ELSE [st EXCEPT !.updates = Append(@, <<0, 1>>)]

\* The input interaction without the update(0) of a frame with no move.
InputInteractionIdleSilent(st) ==
    IF st.pointer.moved
    THEN LET s1 == [st EXCEPT !.updates =
                        Append(@, UpdateArg(st.pointer.dx, st.pointer.dy))]
             s2 == applySplat(s1, PointerSplat(st.pointer))
         IN  [s2 EXCEPT !.pointer.moved = FALSE,
                        !.pointer.dx = 0,
                        !.pointer.dy = 0]
    ELSE st

InputInteraction(st) ==
    IF st.pointer.moved
    THEN LET s1 == [st EXCEPT !.updates =
                        Append(@, UpdateArg(st.pointer.dx, st.pointer.dy))]
             s2 == applySplat(s1, PointerSplat(st.pointer))
         IN  [s2 EXCEPT !.pointer.moved = FALSE,
                        !.pointer.dx = 0,
                        !.pointer.dy = 0]
    ELSE [st EXCEPT !.updates = Append(@, <<0, 1>>)]

\* ------------------------------------------------------- integration passes
AdvectVelocity(st) ==
    LET s1 == renderPass(st, "advectVelocity", 0,
                         [uVelocity |-> st.velocity[1],
                          uSource |-> st.velocity[1]], st.velocity[2])
    IN  [s1 EXCEPT !.velocity = Reverse2(@)]

AdvectDensity(st) ==
    LET s1 == renderPass(st, "advectDensity", 0,
                         [uVelocity |-> st.velocity[1],
                          uSource |-> st.density[1]], st.density[2])
    IN  [s1 EXCEPT !.density = Reverse2(@)]

Divergence(st) ==
    renderPass(st, "divergence", 0, [uVelocity |-> st.velocity[1]], divergence)

\* The pressure loop without pressure.current.reverse().
RECURSIVE PressureLoopNoSwap(_, _)
PressureLoopNoSwap(st, i) ==
    IF i >= PressureIterations THEN st
    ELSE LET s1 == renderPass(st, "pressure", i + 1,
                              [uPressure |-> st.pressure[1],
                               uDivergence |-> divergence], st.pressure[2])
         IN  IF Len(s1.passes) > 0 THEN PressureLoopNoSwap(s1, i + 1) ELSE s1

RECURSIVE PressureLoop(_, _)
PressureLoop(st, i) ==
    IF i >= PressureIterations THEN st
    ELSE LET s1 == renderPass(st, "pressure", i + 1,
                              [uPressure |-> st.pressure[1],
                               uDivergence |-> divergence], st.pressure[2])
             s2 == [s1 EXCEPT !.pressure = Reverse2(@)]
         IN  IF Len(s2.passes) > 0 THEN PressureLoop(s2, i + 1) ELSE s2

\* The gradient subtraction without velocity.current.reverse().
GradientSubtractNoSwap(st) ==
    renderPass(st, "gradientSubtract", 0,
               [uPressure |-> st.pressure[1],
                uVelocity |-> st.velocity[1]], st.velocity[2])

GradientSubtract(st) ==
    LET s1 == renderPass(st, "gradientSubtract", 0,
                         [uPressure |-> st.pressure[1],
                          uVelocity |-> st.velocity[1]], st.velocity[2])
    IN  [s1 EXCEPT !.velocity = Reverse2(@)]

\* The display material given the density buffer at index 1.
RenderToScreenInactive(st) == [st EXCEPT !.display = st.density[2]]

\* displayMat.uniforms.uTexture = density.current[0].texture; the mesh that
\* holds the material is drawn by the renderer after the callback, into the
\* canvas (renderPass leaves the render target null).
RenderToScreen(st) == [st EXCEPT !.display = st.density[1]]

\* The frame body with the input interaction ahead of the automated splats.
FrameBodyInputFirst(st0, isMusicActive, ambienceMode, lo, hi) ==
    LET s1 == InputInteraction(st0)
        s2 == AutomatedSplats(s1, isMusicActive, ambienceMode, lo, hi)
        s3 == AdvectVelocity(s2)
        s4 == AdvectDensity(s3)
        s5 == Divergence(s4)
        s6 == PressureLoop(s5, 0)
        s7 == GradientSubtract(s6)
    IN  RenderToScreen(s7)

\* The frame body with the pointer splat applied after velocity advection.
FrameBodyLateInput(st0, isMusicActive, ambienceMode, lo, hi) ==
    LET s1 == AutomatedSplats(st0, isMusicActive, ambienceMode, lo, hi)
        s2 == AdvectVelocity(s1)
        s3 == InputInteraction(s2)
        s4 == AdvectDensity(s3)
        s5 == Divergence(s4)
        s6 == PressureLoop(s5, 0)
        s7 == GradientSubtract(s6)
    IN  RenderToScreen(s7)

\* The body of the useFrame callback, from the refs at its start.
FrameBody(st0, isMusicActive, ambienceMode, lo, hi) ==
    LET s1 == AutomatedSplats(st0, isMusicActive, ambienceMode, lo, hi)
        s2 == InputInteraction(s1)
        s3 == AdvectVelocity(s2)
        s4 == AdvectDensity(s3)
        s5 == Divergence(s4)
        s6 == PressureLoop(s5, 0)
        s7 == GradientSubtract(s6)
    IN  RenderToScreen(s7)

FrameStart ==
    [velocity |-> velocity, density |-> density, pressure |-> pressure,
     pointer |-> pointer, lastBass |-> lastBass, display |-> displaySource,
     snapshot |-> [called |-> FALSE, null |-> TRUE],
     events |-> <<>>, passes |-> <<>>, updates |-> <<>>]

\* --------------------------------------------------------------- actions
\* One run of the frame callback while the analyser holds `levels`.
Frame(levels) ==
    \E st \in {FrameBody(FrameStart, isPlayingMusic, activeAmbience,
                         levels[1], levels[2])} :
        /\ velocity' = st.velocity
        /\ density' = st.density
        /\ pressure' = st.pressure
        /\ pointer' = st.pointer
        /\ lastBass' = st.lastBass
        /\ displaySource' = st.display
        /\ frame' = [ran |-> TRUE,
                     isMusicActive |-> isPlayingMusic,
                     ambienceMode |-> activeAmbience,
                     start |-> FrameStart,
                     moves |-> moves,
                     snapshot |-> st.snapshot,
                     events |-> st.events,
                     passes |-> st.passes,
                     updates |-> st.updates]
        /\ audio' = applyUpdates(audio, isInitialized, st.updates, 1)
        /\ moves' = 0
        /\ UNCHANGED <<appVars, isInitialized, musicElement, isMusicPlaying,
                       pending, lastMove>>

\* The analyser's content is an input of the frames that read it; a frame
\* that does not call getAudioData, or gets null from it, is given one content.
readsAnalyser == isPlayingMusic /\ activeAmbience = NULL /\ isInitialized

useFrame ==
    \E levels \in (IF readsAnalyser THEN AnalyserLevels ELSE {<<130, 3>>}) :
        Frame(levels)

\* A move listener that keeps the first move of a frame interval.
handleMoveKeepFirst ==
    \E x \in 0..MaxX, y \in 0..MaxY :
        /\ pointer' = IF pointer.moved THEN pointer
                      ELSE [x |-> x, y |-> y,
                            dx |-> x - pointer.x, dy |-> y - pointer.y,
                            moved |-> TRUE, down |-> TRUE]
        /\ frame' = NoFrame
        /\ moves' = Min(moves + 1, MaxMoves)
        /\ lastMove' = <<x, y>>
        /\ UNCHANGED <<appVars, audioVars, velocity, density, pressure,
                       lastBass, displaySource>>

\* A move listener that adds the displacement to the stored one: the
\* displacement since the last frame callback.
handleMoveAccumulate ==
    \E x \in 0..MaxX, y \in 0..MaxY :
        /\ pointer' = [x |-> x, y |-> y,
                       dx |-> pointer.dx + (x - pointer.x),
                       dy |-> pointer.dy + (y - pointer.y),
                       moved |-> TRUE, down |-> TRUE]
        /\ frame' = NoFrame
        /\ moves' = Min(moves + 1, MaxMoves)
        /\ lastMove' = <<x, y>>
        /\ UNCHANGED <<appVars, audioVars, velocity, density, pressure,
                       lastBass, displaySource>>

\* pointermove / touchmove at client position (x, y).
handleMove ==
    \E x \in 0..MaxX, y \in 0..MaxY :
        /\ pointer' = [x |-> x, y |-> y,
                       dx |-> x - pointer.x, dy |-> y - pointer.y,
                       moved |-> TRUE, down |-> TRUE]
        /\ frame' = NoFrame
        /\ moves' = Min(moves + 1, MaxMoves)
        /\ lastMove' = <<x, y>>
        /\ UNCHANGED <<appVars, audioVars, velocity, density, pressure,
                       lastBass, displaySource>>

\* An up listener that also drops the pending move.
handleUpClearsMoved ==
    /\ pointer' = [pointer EXCEPT !.down = FALSE, !.moved = FALSE]
    /\ frame' = NoFrame
    /\ UNCHANGED <<appVars, audioVars, velocity, density, pressure,
                   lastBass, displaySource, histVars>>

\* pointerup / touchend.
handleUp ==
    /\ pointer' = [pointer EXCEPT !.down = FALSE]
    /\ frame' = NoFrame
    /\ UNCHANGED <<appVars, audioVars, velocity, density, pressure,
                   lastBass, displaySource, histVars>>

\* playMusic creating an element and a source node on every call.
playMusicNewElement ==
    /\ isInitialized' = TRUE
    /\ audio' = [audioInit(audio, isInitialized)
                    EXCEPT !.elements = Inc(@), !.sources = Inc(@),
                           !.connects = Inc(@)]
    /\ musicElement' = [created |-> TRUE, paused |-> TRUE]
    /\ pending' = Append(pending, "resume")
    /\ UNCHANGED isMusicPlaying

\* AudioService.playMusic up to its first await: init when there is no graph
\* yet, the audio element created on the first call, its src set (which
\* makes the element load the new source and leaves it paused), and the call
\* left awaiting ctx.resume().
playMusic ==
    /\ isInitialized' = TRUE
    /\ audio' = LET a == audioInit(audio, isInitialized)
                IN  IF musicElement.created THEN a
                    ELSE [a EXCEPT !.elements = Inc(@), !.sources = Inc(@),
                                   !.connects = Inc(@)]
    /\ musicElement' = [created |-> TRUE, paused |-> TRUE]
    /\ pending' = Append(pending, "resume")
    /\ UNCHANGED isMusicPlaying

RemoveAt(q, i) == [j \in 1..(Len(q) - 1) |-> IF j < i THEN q[j] ELSE q[j + 1]]

\* ctx.resume() of a pending playMusic call settles.  Resolved: the call goes
\* on to musicElement.play(), which either starts playback and returns a
\* pending promise or is refused at once.  Rejected: the catch block ends the
\* call.
resumeSettled ==
    \E i \in 1..Len(pending), resolved \in BOOLEAN, allowed \in BOOLEAN :
        /\ pending[i] = "resume"
        /\ IF resolved /\ allowed
           THEN /\ musicElement' = [musicElement EXCEPT !.paused = FALSE]
                /\ pending' = [pending EXCEPT ![i] = "play"]
                /\ frame' = NoFrame
           ELSE /\ pending' = RemoveAt(pending, i)
                /\ frame' = Settled("rejected")
                /\ UNCHANGED musicElement
        /\ UNCHANGED <<appVars, isInitialized, isMusicPlaying, audio,
                       fluidVars, histVars>>

\* musicElement.play() of a pending playMusic call settles.
playSettled ==
    \E i \in 1..Len(pending), resolved \in BOOLEAN :
        /\ pending[i] = "play"
        /\ isMusicPlaying' = IF resolved THEN TRUE ELSE isMusicPlaying
        /\ pending' = RemoveAt(pending, i)
        /\ frame' = Settled(IF resolved THEN "resolved" ELSE "rejected")
        /\ UNCHANGED <<appVars, isInitialized, musicElement, audio,
                       fluidVars, histVars>>

\* AudioService.toggleMusicPause.
toggleMusicPause ==
    IF ~musicElement.created
    THEN UNCHANGED <<musicElement, isMusicPlaying>>
    ELSE IF musicElement.paused
         THEN /\ musicElement' = [musicElement EXCEPT !.paused = FALSE]
              /\ isMusicPlaying' = TRUE
         ELSE /\ musicElement' = [musicElement EXCEPT !.paused = TRUE]
              /\ isMusicPlaying' = FALSE

\* ------------------------------------------------------------ App handlers
\* The start overlay is rendered only while started is false, the controls
\* only once it is true.
handleStart ==
    /\ ~started
    /\ isInitialized' = TRUE
    /\ audio' = setMasterVolume(audioInit(audio, isInitialized), DefaultVolume)
    /\ started' = TRUE
    /\ frame' = NoFrame
    /\ UNCHANGED <<isPlayingMusic, activeAmbience, musicElement,
                   isMusicPlaying, pending, fluidVars, histVars>>

handleFileUpload ==
    /\ started
    /\ Len(pending) < MaxPending
    /\ playMusic
    /\ isPlayingMusic' = TRUE
    /\ activeAmbience' = NULL
    /\ frame' = NoFrame
    /\ UNCHANGED <<started, fluidVars, histVars>>

\* A demo track button that would be rendered before the start gesture.
playDemoTrackBeforeStart ==
    /\ Len(pending) < MaxPending
    /\ playMusic
    /\ isPlayingMusic' = TRUE
    /\ activeAmbience' = NULL
    /\ frame' = NoFrame
    /\ UNCHANGED <<started, fluidVars, histVars>>

playDemoTrack ==
    /\ started
    /\ Len(pending) < MaxPending
    /\ playMusic
    /\ isPlayingMusic' = TRUE
    /\ activeAmbience' = NULL
    /\ frame' = NoFrame
    /\ UNCHANGED <<started, fluidVars, histVars>>

handleAmbiencePlay ==
    \E id \in AmbienceIds :
        /\ started
        /\ Len(pending) < MaxPending
        /\ playMusic
        /\ isPlayingMusic' = TRUE
        /\ activeAmbience' = id
        /\ frame' = NoFrame
        /\ UNCHANGED <<started, fluidVars, histVars>>

toggleMusicPlay ==
    /\ started
    /\ toggleMusicPause
    /\ isPlayingMusic' = isMusicPlaying'
    /\ frame' = NoFrame
    /\ UNCHANGED <<started, activeAmbience, isInitialized, pending, audio,
                   fluidVars, histVars>>

\* ------------------------------------------------------- the application
Init ==
    /\ started = FALSE
    /\ isPlayingMusic = FALSE
    /\ activeAmbience = NULL
    /\ isInitialized = FALSE
    /\ musicElement = [created |-> FALSE, paused |-> TRUE]
    /\ isMusicPlaying = FALSE
    /\ pending = <<>>
    /\ audio = AudioInitial
    /\ velocity = <<"v0", "v1">>
    /\ density = <<"d0", "d1">>
    /\ pressure = <<"p0", "p1">>
    /\ pointer = [x |-> 0, y |-> 0, dx |-> 0, dy |-> 0,
                  moved |-> FALSE, down |-> FALSE]
    /\ lastBass = 0
    /\ displaySource = NULL
    /\ frame = NoFrame
    /\ moves = 0
    /\ lastMove = <<0, 0>>

Next ==
    \/ useFrame
    \/ handleMove
    \/ handleUp
    \/ handleStart
    \/ handleFileUpload
    \/ playDemoTrack
    \/ handleAmbiencePlay
    \/ toggleMusicPlay
    \/ resumeSettled
    \/ playSettled

Spec == Init /\ [][Next]_vars

\* The frame loop keeps running: the renderer calls the frame callback on
\* every animation frame.  useFrame has no guard, so its weak fairness,
\* WF_vars(useFrame), is that it is taken again and again, and frame.ran
\* holds exactly in the states a useFrame step leads to.
FrameLoopRuns == []<>frame.ran

FairSpec == Spec /\ FrameLoopRuns

\* The App with the pointer at rest: its handlers, the settling of playMusic
\* and the frames.
AppNext ==
    \/ useFrame
    \/ handleStart
    \/ handleFileUpload
    \/ playDemoTrack
    \/ handleAmbiencePlay
    \/ toggleMusicPlay
    \/ resumeSettled
    \/ playSettled

AppSpec == Init /\ [][AppNext]_vars

\* ------------------------------------------ the Fluid component by itself
\* The component under any parent: the props isMusicActive and ambienceMode
\* take any value of their types on a re-render, and the audio service is
\* initialized at any time by whoever owns it.
setProps ==
    \E a \in BOOLEAN, m \in AmbienceIds \cup {NULL} :
        /\ isPlayingMusic' = a
        /\ activeAmbience' = m
        /\ frame' = NoFrame
        /\ UNCHANGED <<started, audioVars, fluidVars, histVars>>

init ==
    /\ isInitialized' = TRUE
    /\ audio' = audioInit(audio, isInitialized)
    /\ frame' = NoFrame
    /\ UNCHANGED <<appVars, musicElement, isMusicPlaying, pending,
                   fluidVars, histVars>>

FluidNext ==
    \/ useFrame
    \/ handleMove
    \/ handleUp
    \/ setProps
    \/ init

FluidSpec == Init /\ [][FluidNext]_vars

FluidFairSpec == FluidSpec /\ FrameLoopRuns

\* ------------------------------------------- the music driver by itself
\* The application after the start gesture and a demo track that plays
\* (handleStart, playDemoTrack, both promises resolved), the analyser taking
\* the contents of DropLevels while the pointer moves.
PlayingAudio ==
    [setMasterVolume(audioInit(AudioInitial, FALSE), DefaultVolume)
        EXCEPT !.elements = 1, !.sources = 1, !.connects = 1]

PlayingInit ==
    /\ started = TRUE
    /\ isPlayingMusic = TRUE
    /\ activeAmbience = NULL
    /\ isInitialized = TRUE
    /\ musicElement = [created |-> TRUE, paused |-> FALSE]
    /\ isMusicPlaying = TRUE
    /\ pending = <<>>
    /\ audio = PlayingAudio
    /\ velocity = <<"v0", "v1">>
    /\ density = <<"d0", "d1">>
    /\ pressure = <<"p0", "p1">>
    /\ pointer = [x |-> 0, y |-> 0, dx |-> 0, dy |-> 0,
                  moved |-> FALSE, down |-> FALSE]
    /\ lastBass = 0
    /\ displaySource = NULL
    /\ frame = NoFrame
    /\ moves = 0
    /\ lastMove = <<0, 0>>

musicFrame == \E levels \in DropLevels : Frame(levels)

MusicNext ==
    \/ musicFrame
    \/ handleMove

MusicSpec == PlayingInit /\ [][MusicNext]_vars

\* ------------------------------------------------- around the start gesture
\* The App from mount, with the pointer listeners: the frames, the moves, the
\* start overlay's button and, of the controls rendered once started, the
\* demo track button.
StartNext ==
    \/ useFrame
    \/ handleMove
    \/ handleUp
    \/ handleStart
    \/ playDemoTrack

StartSpec == Init /\ [][StartNext]_vars

\* ------------------------------------------- the audio service by itself
\* The service under any caller: its public methods called in any order with
\* any argument, a playMusic call settling at any time.  The trace records
\* the method called and its argument (for init: whether the service was
\* initialized when it was called).
Called(op, arg) == [ran |-> FALSE, settled |-> "none", call |-> op, arg |-> arg]

\* Arguments of update, as squares: 0, 0.001 (the threshold of isActive),
\* 0.05, 1 and 2 (above the clamp at 1.2).
UpdateValues == {<<0, 1>>, <<1, 1000000>>, <<1, 400>>, <<1, 1>>, <<4, 1>>}
\* Arguments of setMasterVolume, in hundredths.
Volumes == {0, 50, 100}

callInit ==
    /\ isInitialized' = TRUE
    /\ audio' = audioInit(audio, isInitialized)
    /\ frame' = Called("init", isInitialized)
    /\ UNCHANGED <<appVars, musicElement, isMusicPlaying, pending,
                   fluidVars, histVars>>

callSetInstrument ==
    \E type \in InstrumentTypes :
        /\ audio' = setInstrument(audio, isInitialized, type)
        /\ frame' = [ran |-> FALSE, settled |-> "none",
                     call |-> "setInstrument", arg |-> type,
                     was |-> audio.currentType,
                     wobbling |-> \E i \in 1..Len(audio.oscs) :
                                     audio.oscs[i].wobble.set]
        /\ UNCHANGED <<appVars, isInitialized, musicElement, isMusicPlaying,
                       pending, fluidVars, histVars>>

callUpdate ==
    \E v \in UpdateValues :
        /\ audio' = update(audio, isInitialized, v)
        /\ frame' = Called("update", v)
        /\ UNCHANGED <<appVars, isInitialized, musicElement, isMusicPlaying,
                       pending, fluidVars, histVars>>

callSetMute ==
    \E mute \in BOOLEAN :
        /\ audio' = setMute(audio, mute)
        /\ frame' = Called("setMute", mute)
        /\ UNCHANGED <<appVars, isInitialized, musicElement, isMusicPlaying,
                       pending, fluidVars, histVars>>

callSetMasterVolume ==
    \E vol \in Volumes :
        /\ audio' = setMasterVolume(audio, vol)
        /\ frame' = Called("setMasterVolume", vol)
        /\ UNCHANGED <<appVars, isInitialized, musicElement, isMusicPlaying,
                       pending, fluidVars, histVars>>

callPlayMusic ==
    /\ Len(pending) < MaxPending
    /\ playMusic
    /\ frame' = Called("playMusic", musicElement.created)
    /\ UNCHANGED <<appVars, fluidVars, histVars>>

callToggleMusicPause ==
    /\ toggleMusicPause
    /\ frame' = Called("toggleMusicPause", NULL)
    /\ UNCHANGED <<appVars, isInitialized, pending, audio, fluidVars,
                   histVars>>

AudioNext ==
    \/ callInit
    \/ callSetInstrument
    \/ callUpdate
    \/ callSetMute
    \/ callSetMasterVolume
    \/ callPlayMusic
    \/ callToggleMusicPause
    \/ resumeSettled
    \/ playSettled

AudioSpec == Init /\ [][AudioNext]_vars

\* --------------------------------------------- the solver on field contents
\* What the shaders of constants.ts write, channel by channel.  The content of
\* a texture is a record of four channels x, y, z, w (r, g, b, a); a channel is
\* a term [op, args, k]: the operation that produced it, the channels it was
\* computed from, and the numeric uniforms of the draw.  The contents at the
\* start of a frame are atoms named after the buffer.  Colours are in
\* thousandths, dissipations in hundredths, dt in thousandths of a second,
\* the frame delta in milliseconds.
FluidModes == {"flux", "ignite", "frost", "mist"}
SimRes == 256
DyeRes == 1024

\* Forcing events a solver step is given at most.
MaxSplats == 1

Buffers == {"v0", "v1", "d0", "d1", "p0", "p1", "div"}

Atom(id, ch) == [op |-> id, args |-> <<>>, k |-> <<ch>>]
Const(n) == [op |-> "const", args |-> <<>>, k |-> <<n>>]
Texture(id) ==
    [x |-> Atom(id, 1), y |-> Atom(id, 2), z |-> Atom(id, 3), w |-> Atom(id, 4)]

StartContents == [id \in Buffers |-> Texture(id)]

\* base + exp(-dot(p, p) / radius) * c for one channel: the weight is finite
\* (radius > 0), so a zero component adds 0 and leaves the channel as it is.
AddSplat(base, c, ev) ==
    IF c = 0 THEN base
    ELSE [op |-> "splat", args |-> <<base>>,
          k |-> <<c, ev.u[1], ev.u[2], ev.v[1], ev.v[2], ev.radius>>]

\* gl_FragColor = vec4(base + splat, 1.0)
SPLAT_SHADER(uTarget, color, ev) ==
    [x |-> AddSplat(uTarget.x, color[1], ev),
     y |-> AddSplat(uTarget.y, color[2], ev),
     z |-> AddSplat(uTarget.z, color[3], ev),
     w |-> Const(1000)]

\* gl_FragColor = texture2D(uSource, vUv - dt * velocity.xy * texelSize)
\*                * dissipation
ADVECTION_SHADER(uVelocity, uSource, res, dt, dissipation) ==
    LET Advected(c) == [op |-> "advect",
                        args |-> <<c, uVelocity.x, uVelocity.y>>,
                        k |-> <<res, dt, dissipation>>]
    IN  [x |-> Advected(uSource.x), y |-> Advected(uSource.y),
         z |-> Advected(uSource.z), w |-> Advected(uSource.w)]

\* gl_FragColor = vec4(div, 0.0, 0.0, 1.0)
DIVERGENCE_SHADER(uVelocity, res) ==
    [x |-> [op |-> "divergence", args |-> <<uVelocity.x, uVelocity.y>>,
            k |-> <<res>>],
     y |-> Const(0), z |-> Const(0), w |-> Const(1000)]

\* gl_FragColor = vec4(pressure, 0.0, 0.0, 1.0)
PRESSURE_SHADER(uPressure, uDivergence, res) ==
    [x |-> [op |-> "pressure", args |-> <<uPressure.x, uDivergence.x>>,
            k |-> <<res>>],
     y |-> Const(0), z |-> Const(0), w |-> Const(1000)]

\* velocity.xy -= vec2(R - L, T - B); gl_FragColor = vec4(velocity, 0.0, 1.0)
GRADIENT_SUBTRACT_SHADER(uPressure, uVelocity, res) ==
    [x |-> [op |-> "gradientX", args |-> <<uVelocity.x, uPressure.x>>,
            k |-> <<res>>],
     y |-> [op |-> "gradientY", args |-> <<uVelocity.y, uPressure.x>>,
            k |-> <<res>>],
     z |-> Const(0), w |-> Const(1000)]

velocityDissipation(mode) ==
    CASE mode = "ignite" -> 98
      [] mode = "mist" -> 99
      [] mode = "frost" -> 95
      [] OTHER -> 99

\* The density dissipation with a factor above 1 for the ignite mode.
densityDissipationGrowing(mode) ==
    CASE mode = "ignite" -> 102
      [] mode = "mist" -> 98
      [] mode = "frost" -> 97
      [] OTHER -> 97

densityDissipation(mode) ==
    CASE mode = "ignite" -> 92
      [] mode = "mist" -> 98
      [] mode = "frost" -> 97
      [] OTHER -> 97

\* The advection material's dt following the frame delta.
AdvectionDtOfDelta(delta) == delta

\* uniforms.dt of the advection material at the draws of a frame callback
\* called with delta: the value given at the material's creation, which the
\* callback never assigns.
AdvectionDt(delta) == 16

\* The passes with the splat material's colour left, at the density draw, as
\* the velocity draw set it.
ShadeStaleColor(c, p, ev, mode, delta) ==
    CASE p.pass = "splatVelocity" ->
            SPLAT_SHADER(c[p.uniforms.uTarget],
                         <<ev.force[1], -ev.force[2], 1000>>, ev)
      [] p.pass = "splatDensity" ->
            SPLAT_SHADER(c[p.uniforms.uTarget],
                         <<ev.force[1], -ev.force[2], 1000>>, ev)
      [] p.pass = "advectVelocity" ->
            ADVECTION_SHADER(c[p.uniforms.uVelocity], c[p.uniforms.uSource],
                             SimRes, AdvectionDt(delta),
                             velocityDissipation(mode))
      [] p.pass = "advectDensity" ->
            ADVECTION_SHADER(c[p.uniforms.uVelocity], c[p.uniforms.uSource],
                             DyeRes, AdvectionDt(delta),
                             densityDissipation(mode))
      [] p.pass = "divergence" ->
            DIVERGENCE_SHADER(c[p.uniforms.uVelocity], SimRes)
      [] p.pass = "pressure" ->
            PRESSURE_SHADER(c[p.uniforms.uPressure],
                            c[p.uniforms.uDivergence], SimRes)
      [] OTHER ->
            GRADIENT_SUBTRACT_SHADER(c[p.uniforms.uPressure],
                                     c[p.uniforms.uVelocity], SimRes)

\* The passes with the splat material's colour set to the event's colour
\* before the velocity draw already.
ShadeColorFirst(c, p, ev, mode, delta) ==
    CASE p.pass = "splatVelocity" ->
            SPLAT_SHADER(c[p.uniforms.uTarget], ev.color, ev)
      [] p.pass = "splatDensity" ->
            SPLAT_SHADER(c[p.uniforms.uTarget], ev.color, ev)
      [] p.pass = "advectVelocity" ->
            ADVECTION_SHADER(c[p.uniforms.uVelocity], c[p.uniforms.uSource],
                             SimRes, AdvectionDt(delta),
                             velocityDissipation(mode))
      [] p.pass = "advectDensity" ->
            ADVECTION_SHADER(c[p.uniforms.uVelocity], c[p.uniforms.uSource],
                             DyeRes, AdvectionDt(delta),
                             densityDissipation(mode))
      [] p.pass = "divergence" ->
            DIVERGENCE_SHADER(c[p.uniforms.uVelocity], SimRes)
      [] p.pass = "pressure" ->
            PRESSURE_SHADER(c[p.uniforms.uPressure],
                            c[p.uniforms.uDivergence], SimRes)
      [] OTHER ->
            GRADIENT_SUBTRACT_SHADER(c[p.uniforms.uPressure],
                                     c[p.uniforms.uVelocity], SimRes)

\* What the pass p writes into its target, c holding the contents of all
\* buffers at the draw; ev is the forcing event of a splat pass.
Shade(c, p, ev, mode, delta) ==
    CASE p.pass = "splatVelocity" ->
            SPLAT_SHADER(c[p.uniforms.uTarget],
                         <<ev.force[1], -ev.force[2], 1000>>, ev)
      [] p.pass = "splatDensity" ->
            SPLAT_SHADER(c[p.uniforms.uTarget], ev.color, ev)
      [] p.pass = "advectVelocity" ->
            ADVECTION_SHADER(c[p.uniforms.uVelocity], c[p.uniforms.uSource],
                             SimRes, AdvectionDt(delta),
                             velocityDissipation(mode))
      [] p.pass = "advectDensity" ->
            ADVECTION_SHADER(c[p.uniforms.uVelocity], c[p.uniforms.uSource],
                             DyeRes, AdvectionDt(delta),
                             densityDissipation(mode))
      [] p.pass = "divergence" ->
            DIVERGENCE_SHADER(c[p.uniforms.uVelocity], SimRes)
      [] p.pass = "pressure" ->
            PRESSURE_SHADER(c[p.uniforms.uPressure],
                            c[p.uniforms.uDivergence], SimRes)
      [] OTHER ->
            GRADIENT_SUBTRACT_SHADER(c[p.uniforms.uPressure],
                                     c[p.uniforms.uVelocity], SimRes)

\* The contents of the buffers after the passes j.. of a frame, n splats
\* having been applied before pass j (the two passes of the n-th event are
\* the n-th splatVelocity and splatDensity passes).
RECURSIVE Draw(_, _, _, _, _, _, _)
Draw(c, passes, events, mode, delta, j, n) ==
    IF j > Len(passes) THEN c
    ELSE LET p == passes[j]
             m == IF p.pass = "splatVelocity" THEN n + 1 ELSE n
             ev == IF m >= 1 THEN events[m] ELSE NULL
             c1 == [c EXCEPT ![p.write] = Shade(c, p, ev, mode, delta)]
         IN  IF c1[p.write].w.op # NULL
             THEN Draw(c1, passes, events, mode, delta, j + 1, m)
             ELSE c1

\* The arguments of an applySplat call: the position (fractions of the
\* canvas), the force (dx, dy), the colour and the radius (a positive number,
\* in hundred-thousandths).
Splat(u, v, force, color, radius) ==
    [kind |-> "splat", i |-> 0, u |-> u, v |-> v, force |-> force,
     color |-> color, radius |-> radius]

Forces == {<<0, 0>>, <<5, -5>>}
Colors == {<<0, 0, 0>>, <<1000, 500, 0>>}
ForcingEvents ==
    {Splat(<<1, 2>>, <<1, 2>>, f, col, 250) : f \in Forces, col \in Colors}
EventLists ==
    UNION {[1..n -> ForcingEvents] : n \in 0..MaxSplats}

\* The delta the renderer passes to the frame callback, in milliseconds.
FrameDeltas == {16, 33}

RECURSIVE applySplats(_, _, _)
applySplats(st, events, j) ==
    IF j > Len(events) THEN st
    ELSE LET s1 == applySplat(st, events[j])
         IN  IF Len(s1.events) > 0 THEN applySplats(s1, events, j + 1) ELSE s1

\* Steps 3 to 8 of the frame callback.
Integrate(st) ==
    LET s3 == AdvectVelocity(st)
        s4 == AdvectDensity(s3)
        s5 == Divergence(s4)
        s6 == PressureLoop(s5, 0)
        s7 == GradientSubtract(s6)
    IN  RenderToScreen(s7)

\* The splats of the forcing events, then the integration passes.
SolverPasses(start, events) == Integrate(applySplats(start, events, 1))

\* The contents of the three fields after a solver step: of the buffers at
\* index 0 of the pairs.
FieldsAfter(start, events, mode, delta) ==
    LET st == SolverPasses(start, events)
        c == Draw(StartContents, st.passes, events, mode, delta, 1, 0)
    IN  [velocity |-> c[st.velocity[1]], density |-> c[st.density[1]],
         pressure |-> c[st.pressure[1]]]

\* One run of the frame callback's solver part in a mode, called with a
\* delta, its drivers having emitted the forcing events `events`.
solverStep ==
    \E delta \in FrameDeltas, mode \in FluidModes, events \in EventLists :
        \E st \in {SolverPasses(FrameStart, events)} :
            /\ velocity' = st.velocity
            /\ density' = st.density
            /\ pressure' = st.pressure
            /\ displaySource' = st.display
            /\ frame' = [ran |-> TRUE, delta |-> delta, mode |-> mode,
                         start |-> FrameStart,
                         events |-> st.events, passes |-> st.passes,
                         fields |-> FieldsAfter(FrameStart, events, mode,
                                                delta)]
            /\ UNCHANGED <<appVars, audioVars, pointer, lastBass, histVars>>

FieldSpec == Init /\ [][solverStep]_vars

\* ------------------------------------------- the divergence pass on a grid
\* A velocity texture of GridSize x GridSize texels holding small integers:
\* the cell <<i, j>> is column i, row j, counted from 0, and holds the pair
\* <<x, y>>.  The pass draws the full-screen quad, so the fragment of the
\* cell <<i, j>> has vUv = <<(2i + 1) / 2N, (2j + 1) / 2N>>.
GridSize == 2

Cells == (0..(GridSize - 1)) \X (0..(GridSize - 1))

Velocities == {-1, 0, 2} \X {-1, 0, 2}

\* The textures the pass is applied to: one cell holds `own`, the others
\* hold `rest`.
VelocityGrids ==
    {[c \in Cells |-> IF c = at THEN own ELSE rest] :
        at \in Cells, own \in Velocities, rest \in Velocities}

\* createTarget: wrapS and wrapT are ClampToEdgeWrapping, so a sample one
\* texel outside the texture reads the edge texel.
ClampToEdge(n) == IF n < 0 THEN 0 ELSE IF n > GridSize - 1 THEN GridSize - 1 ELSE n

texture2D(tex, i, j) == tex[<<ClampToEdge(i), ClampToEdge(j)>>]

\* vUv of a cell, as numerators over 2 * GridSize; 0.0 and 1.0 in the same
\* unit.
vUv(c) == <<2 * c[1] + 1, 2 * c[2] + 1>>
UvZero == 0
UvOne == 2 * GridSize

\* main of DIVERGENCE_SHADER for one fragment; the result is twice the
\* value written (the 0.5 is left out to stay in the integers).
DivergenceMain(uVelocity, c) ==
    LET L0 == texture2D(uVelocity, c[1] - 1, c[2])[1]
        R0 == texture2D(uVelocity, c[1] + 1, c[2])[1]
        T0 == texture2D(uVelocity, c[1], c[2] + 1)[2]
        B0 == texture2D(uVelocity, c[1], c[2] - 1)[2]
        C == texture2D(uVelocity, c[1], c[2])
        L == IF vUv(c)[1] < UvZero THEN 0 - C[1] ELSE L0
        R == IF vUv(c)[1] > UvOne THEN 0 - C[1] ELSE R0
        T == IF vUv(c)[2] > UvOne THEN 0 - C[2] ELSE T0
        B == IF vUv(c)[2] < UvZero THEN 0 - C[2] ELSE B0
    IN  R - L + T - B

\* The divergence pass over a velocity texture.
divergencePass ==
    \E uVelocity \in VelocityGrids :
        /\ frame' = [ran |-> FALSE, settled |-> "none", pass |-> "divergence",
                     uVelocity |-> uVelocity,
                     written |-> [c \in Cells |-> DivergenceMain(uVelocity, c)]]
        /\ UNCHANGED <<appVars, audioVars, fluidVars, histVars>>

DivergenceSpec == Init /\ [][divergencePass]_vars

\* ------------------------------------------------ the solver on a linear flow
\* The solver step with no forcing event, on the cells around the centre of
\* the simulation grid, for a flow that is linear there: the velocity of the
\* cell <<i, j>> is <<slope * i, 0>> (i counted from the centre) and the
\* pressure is the same in every cell.  A pass reads a cell's four
\* neighbours, so what the eye of the window holds after a step depends on
\* the cells within Reach of it only, not on the edges of the domain.
\*
\* Quantities are in units of 1/10000; a quantity that the code computes in
\* floating point is an interval <<lo, hi>> of integers that contains it.
MaxSteps == 3

\* Cells a step carries values across: the advection (less than one cell),
\* the divergence pass, the pressure passes, the gradient subtraction.
Reach == 1 + 1 + PressureIterations + 1

StartSlopes == {2500, 5000, 10000, 15000, 20000, 30000, 50000}

CeilDiv(a, b) == (a + b - 1) \div b

Exactly(n) == [lo |-> n, hi |-> n]

\* ADVECTION_SHADER on the velocity itself: the fragment of cell i samples
\* the velocity at i - dt * (slope * i), where the linear filter gives
\* slope * (i - dt * slope * i), and multiplies by the dissipation: the flow
\* stays linear, with slope * (1 - dt * slope) * dissipation.  dt is in
\* thousandths, the dissipation in hundredths.
AdvectSlope(slope, dt, dissipation) ==
    LET keepLo == 10000 - CeilDiv(dt * slope.lo, 1000)
        keepHi == 10000 - ((dt * slope.hi) \div 1000)
        lo == (slope.lo * keepLo) \div 10000
        hi == CeilDiv(slope.hi * keepHi, 10000)
    IN  [lo |-> (lo * dissipation) \div 100,
         hi |-> CeilDiv(hi * dissipation, 100)]

\* DIVERGENCE_SHADER away from the edges: R - L is 2 * slope, T - B is 0.
DivergenceOfSlope(slope) == slope

\* PRESSURE_SHADER on a uniform pressure and a uniform divergence: the four
\* neighbours hold the cell's own pressure, (4 * p - divergence) * 0.25.
PressureOfUniform(p, dvg) ==
    [lo |-> p.lo - CeilDiv(dvg.hi, 4), hi |-> p.hi - (dvg.lo \div 4)]

RECURSIVE PressureIterate(_, _, _)
PressureIterate(p, dvg, k) ==
    IF k = 0 THEN p
    ELSE LET next == PressureOfUniform(p, dvg)
         IN  IF next.lo <= next.hi THEN PressureIterate(next, dvg, k - 1)
             ELSE next

\* GRADIENT_SUBTRACT_SHADER on a uniform pressure: R - L and T - B are 0, the
\* velocity is written back as it is.
GradientSubtractUniform(slope, p) == slope

\* The textures are given a linear flow and a zero pressure, in a mode.
flowStart ==
    \E mode \in FluidModes, slope \in StartSlopes :
        /\ frame' = [ran |-> FALSE, settled |-> "none",
                     flow |-> [mode |-> mode, steps |-> 0,
                               slope |-> Exactly(slope), pressure |-> Exactly(0),
                               divergence |-> Exactly(0), after |-> Exactly(slope)]]
        /\ UNCHANGED <<appVars, audioVars, fluidVars, histVars>>

\* One run of the frame callback with no forcing event on the linear flow.
flowStep ==
    /\ "flow" \in DOMAIN frame
    /\ frame.flow.steps < MaxSteps
    /\ (frame.flow.steps + 1) * Reach < SimRes \div 2
    /\ \E f \in {frame.flow} :
        \E advected \in {AdvectSlope(f.slope, AdvectionDt(16), velocityDissipation(f.mode))} :
          \E dvg \in {DivergenceOfSlope(advected)} :
            \E p \in {PressureIterate(f.pressure, dvg, PressureIterations)} :
              \E projected \in {GradientSubtractUniform(advected, p)} :
                frame' = [ran |-> FALSE, settled |-> "none",
                          flow |-> [mode |-> f.mode, steps |-> f.steps + 1,
                                    slope |-> projected, pressure |-> p,
                                    divergence |-> dvg,
                                    after |-> DivergenceOfSlope(projected)]]
    /\ UNCHANGED <<appVars, audioVars, fluidVars, histVars>>

FlowSpec == Init /\ [][flowStart \/ flowStep]_vars

\* --------------------------------------------- overlapping playMusic calls
\* playMusic with the element's source and the calls told apart.  The media
\* element is the browser's: assigning src runs its load algorithm, which
\* pauses it and rejects the play() promises still pending; play() is
\* refused at once when playback is not allowed, and otherwise unpauses the
\* element and returns a promise that resolves when the current source
\* starts playing and rejects when it cannot be played.  A source is a url
\* and whether it can be played.  A pending call is the source it was given
\* and the promise it awaits: "resume", "play", or "aborted" for a play()
\* promise the load algorithm rejected.
MaxCalls == 2

Sources == {[url |-> u, playable |-> ok] : u \in {"demo", "file"}, ok \in BOOLEAN}

AbortPlays(q) ==
    [j \in 1..Len(q) |-> IF q[j].at = "play" THEN [q[j] EXCEPT !.at = "aborted"]
                         ELSE q[j]]

\* The trace: the outcome of the step, the source of the last call, the
\* number of calls issued since no call was pending, and the engine's flag
\* when the first of them was issued.
PlayerTrace(outcome) == [frame EXCEPT !.settled = outcome]

\* playMusic(src) up to its first await.
playMusicOf ==
    \E src \in Sources :
        /\ Len(pending) < MaxCalls
        /\ isInitialized' = TRUE
        /\ audio' = LET a == audioInit(audio, isInitialized)
                    IN  IF musicElement.created THEN a
                        ELSE [a EXCEPT !.elements = Inc(@), !.sources = Inc(@),
                                       !.connects = Inc(@)]
        /\ musicElement' = [created |-> TRUE, paused |-> TRUE, src |-> src]
        /\ pending' = Append(AbortPlays(pending), [src |-> src, at |-> "resume"])
        /\ frame' = [ran |-> FALSE, settled |-> "none", last |-> src,
                     group |-> IF pending = <<>> THEN 1
                               ELSE Min(frame.group + 1, MaxCalls + 1),
                     flagBefore |-> IF pending = <<>> THEN isMusicPlaying
                                    ELSE frame.flagBefore]
        /\ UNCHANGED <<appVars, isMusicPlaying, fluidVars, histVars>>

\* await ctx.resume() of a pending call settles; resolved, the call goes on
\* to musicElement.play().
resumeSettledOf ==
    \E i \in 1..Len(pending), resolved \in BOOLEAN, allowed \in BOOLEAN :
        /\ pending[i].at = "resume"
        /\ IF resolved /\ allowed
           THEN /\ musicElement' = [musicElement EXCEPT !.paused = FALSE]
                /\ pending' = [pending EXCEPT ![i].at = "play"]
                /\ frame' = PlayerTrace("none")
           ELSE /\ pending' = RemoveAt(pending, i)
                /\ frame' = PlayerTrace("rejected")
                /\ UNCHANGED musicElement
        /\ UNCHANGED <<appVars, isInitialized, isMusicPlaying, audio,
                       fluidVars, histVars>>

\* await musicElement.play() of a pending call settles: resolved, the call
\* sets isMusicPlaying; rejected, its catch block logs.
playSettledOf ==
    \E i \in 1..Len(pending) :
        /\ pending[i].at \in {"play", "aborted"}
        /\ \E resolved \in {pending[i].at = "play" /\ musicElement.src.playable} :
            /\ isMusicPlaying' = IF resolved THEN TRUE ELSE isMusicPlaying
            /\ frame' = PlayerTrace(IF resolved THEN "resolved" ELSE "rejected")
        /\ pending' = RemoveAt(pending, i)
        /\ UNCHANGED <<appVars, isInitialized, musicElement, audio,
                       fluidVars, histVars>>

PlayerSpec == Init /\ [][playMusicOf \/ resumeSettledOf \/ playSettledOf]_vars

\* =========================================================== properties
\* Reading the trace of the last frame callback.
Range(f) == {f[n] : n \in DOMAIN f}

NumEvents == Len(frame.events)
NumPasses == Len(frame.passes)
EventsOfKind(kinds) == {j \in 1..NumEvents : frame.events[j].kind \in kinds}

\* The field a pass renders into, and the uniform that holds that field's
\* own buffer.
FieldOf(name) ==
    CASE name \in {"splatVelocity", "advectVelocity", "gradientSubtract"}
            -> "velocity"
      [] name \in {"splatDensity", "advectDensity"} -> "density"
      [] name = "pressure" -> "pressure"
      [] OTHER -> "divergence"

SourceUniform(name) ==
    CASE name \in {"splatVelocity", "splatDensity"} -> "uTarget"
      [] name \in {"advectVelocity", "advectDensity"} -> "uSource"
      [] name = "pressure" -> "uPressure"
      [] OTHER -> "uVelocity"

\* The order of a field's pair at the draw of pass j, and after the last pass.
PairAt(j, field) ==
    IF j <= NumPasses THEN frame.passes[j][field]
    ELSE CASE field = "velocity" -> velocity
           [] field = "density" -> density
           [] OTHER -> pressure

IntegrationOrder ==
    <<"advectVelocity", "advectDensity", "divergence">>
    \o [k \in 1..PressureIterations |-> "pressure"]
    \o <<"gradientSubtract">>

\* C1: in every pass of a frame the render target is none of the buffers the
\* pass samples; a pass over a ping-ponged field samples the field's buffer at
\* index 0, renders into the one at index 1, and the pair is reversed before
\* the next pass is drawn (or the frame ends).
C1_NoAliasing ==
    frame.ran =>
        \A j \in 1..NumPasses :
            LET p == frame.passes[j]
                field == FieldOf(p.pass)
            IN  /\ p.write \notin Range(p.uniforms)
                /\ field # "divergence" =>
                     /\ p.uniforms[SourceUniform(p.pass)] = p[field][1]
                     /\ p.write = p[field][2]
                     /\ PairAt(j + 1, field) = <<p[field][2], p[field][1]>>

\* A frame that applied automated splats and the pointer splat.
C1_Witness ==
    /\ frame.ran
    /\ EventsOfKind({"burst"}) # {}
    /\ EventsOfKind({"pointer"}) # {}

\* C2: the passes of a frame are the splats of its forcing events, each a
\* velocity pass then a density pass, followed by the integration passes once
\* each in their order; density is advected by the velocity buffer the
\* velocity advection wrote, and the display source is the density buffer the
\* density advection wrote.
C2_FrameOrder ==
    frame.ran =>
        /\ NumPasses = 2 * NumEvents + Len(IntegrationOrder)
        /\ \A i \in 1..NumEvents :
              /\ frame.passes[2 * i - 1].pass = "splatVelocity"
              /\ frame.passes[2 * i].pass = "splatDensity"
        /\ \A t \in 1..Len(IntegrationOrder) :
              frame.passes[2 * NumEvents + t].pass = IntegrationOrder[t]
        /\ frame.passes[2 * NumEvents + 2].uniforms.uVelocity
              = frame.passes[2 * NumEvents + 1].write
        /\ displaySource = frame.passes[2 * NumEvents + 2].write

\* A frame with agent splats and the pointer splat before its integration.
C2_Witness ==
    /\ frame.ran
    /\ EventsOfKind({"agent"}) # {}
    /\ EventsOfKind({"pointer"}) # {}
    /\ frame.start.display # NULL

PressurePasses == SelectSeq(frame.passes, LAMBDA p : p.pass = "pressure")
PassNamed(name) ==
    frame.passes[CHOOSE j \in 1..NumPasses : frame.passes[j].pass = name]

\* C3: a frame draws exactly 20 pressure passes; the first samples the buffer
\* at index 0 when the frame started, which is the buffer the 20th pass of the
\* frame before it wrote (the pair is in the same order at every frame
\* boundary and no other step touches it); each later one samples what the
\* one before it wrote; all sample the divergence buffer written by this
\* frame's divergence pass; gradient subtraction samples what the 20th wrote.
C3_PressureChain ==
    /\ pressure = <<"p0", "p1">>
    /\ frame.ran =>
        LET pp == PressurePasses
        IN  /\ Len(pp) = 20
            /\ frame.start.pressure = pressure
            /\ pp[1].uniforms.uPressure = frame.start.pressure[1]
            /\ \A k \in 2..20 : pp[k].uniforms.uPressure = pp[k - 1].write
            /\ \A k \in 1..20 :
                  /\ pp[k].k = k
                  /\ pp[k].uniforms.uDivergence = PassNamed("divergence").write
            /\ frame.passes[NumPasses - 21].pass = "divergence"
            /\ PassNamed("gradientSubtract").uniforms.uPressure = pp[20].write
            /\ pressure[1] = pp[20].write

\* A frame that is not the first one.
C3_Witness ==
    /\ frame.ran
    /\ frame.start.display # NULL
    /\ Len(PressurePasses) = 20
PointerEvents == EventsOfKind({"pointer"})
AgentEvents == EventsOfKind({"agent"})
MusicEvents == EventsOfKind({"trail", "burst"})

\* C4: a frame that starts with the moved flag set emits exactly one pointer
\* event, with force 5 * (dx, dy) at (x / width, y / height) of the stored
\* pointer, and leaves moved false and dx = dy = 0; the flag is set exactly
\* when a move came since the last frame, and a frame with no move since the
\* frame before it emits no pointer event.
C4_PointerEvent ==
    /\ pointer.moved <=> moves > 0
    /\ frame.ran =>
        LET p == frame.start.pointer
        IN  /\ p.moved =>
                 /\ Cardinality(PointerEvents) = 1
                 /\ \A j \in PointerEvents :
                       /\ frame.events[j].force = <<5 * p.dx, 5 * p.dy>>
                       /\ frame.events[j].u = <<p.x, Width>>
                       /\ frame.events[j].v = <<p.y, Height>>
            /\ frame.moves = 0 => PointerEvents = {}
            /\ pointer = [p EXCEPT !.moved = FALSE, !.dx = 0, !.dy = 0]

\* A frame that consumed a move with a displacement on both axes.
C4_Witness ==
    /\ frame.ran
    /\ frame.start.pointer.moved
    /\ frame.start.pointer.dx # 0
    /\ frame.start.pointer.dy # 0
    /\ Cardinality(PointerEvents) = 1

\* The handoff of the pointer ref: it always holds the last move; a frame
\* that follows one or more moves emits exactly one pointer event, at the
\* coordinates of the last of them, and leaves no move pending.
C5_Coalesced ==
    /\ moves > 0 => <<pointer.x, pointer.y>> = lastMove
    /\ frame.ran =>
        /\ moves = 0
        /\ ~pointer.moved
        /\ frame.moves >= 1 =>
             /\ Cardinality(PointerEvents) = 1
             /\ \A j \in PointerEvents :
                   /\ frame.events[j].u = <<lastMove[1], Width>>
                   /\ frame.events[j].v = <<lastMove[2], Height>>

\* C5: however many moves come between two frames, the next frame emits
\* exactly one pointer event, at the last move's coordinates, and nothing is
\* kept for later frames; with the frame loop running, a set moved flag leads
\* to a frame that has consumed the move and cleared the flag.
C5_LastMoveWins ==
    /\ []C5_Coalesced
    /\ pointer.moved ~> (frame.ran /\ ~pointer.moved)

\* A frame that followed two moves or more.
C5_Witness ==
    /\ frame.ran
    /\ frame.moves >= 2
    /\ Cardinality(PointerEvents) = 1

\* C6: no frame has events of both automated drivers: without the active flag
\* neither emits, with an ambience selected the music driver does not, and
\* without one the ambience driver does not.
C6_OneDriver ==
    frame.ran =>
        /\ AgentEvents = {} \/ MusicEvents = {}
        /\ ~frame.isMusicActive => AgentEvents = {} /\ MusicEvents = {}
        /\ frame.ambienceMode # NULL => MusicEvents = {}
        /\ frame.ambienceMode = NULL => AgentEvents = {}

\* An ambience frame drawn while the analyser holds a loud signal.
C6_Witness ==
    /\ frame.ran
    /\ frame.isMusicActive
    /\ frame.ambienceMode # NULL
    /\ isInitialized
    /\ AgentEvents # {}

\* C7: a frame that starts with the moved flag set has exactly one pointer
\* event whichever automated driver ran, and it is the last event of the frame.
C7_PointerLast ==
    frame.ran /\ frame.start.pointer.moved =>
        PointerEvents = {NumEvents}

\* A frame with a music burst and a pointer move.
C7_Witness ==
    /\ frame.ran
    /\ frame.start.pointer.moved
    /\ EventsOfKind({"burst"}) # {}
    /\ PointerEvents = {NumEvents}
BurstEvents == EventsOfKind({"burst"})

\* The music driver ran in the last frame and had a snapshot.
MusicFrameWithData ==
    /\ frame.ran
    /\ frame.snapshot.called
    /\ ~frame.snapshot.null

\* C8: a frame of the music driver emits a burst, of exactly 30 events, if and
\* only if the low-band average is above 110 and above the stored average of
\* the music frame before it by more than 20, and then stores its own average;
\* 130 after 50 bursts, 50 and 100 never do, 115 after 100 does not.
C8_DropBurst ==
    MusicFrameWithData =>
        LET bass == frame.snapshot.bassSum
            last == frame.start.lastBass
        IN  /\ Cardinality(BurstEvents) =
                  IF bass > 110 * 15 /\ bass - last > 20 * 15 THEN 30 ELSE 0
            /\ lastBass = bass
            /\ last = 50 * 15 /\ bass = 130 * 15 => Cardinality(BurstEvents) = 30
            /\ bass \in {50 * 15, 100 * 15} => BurstEvents = {}
            /\ last = 100 * 15 /\ bass = 115 * 15 => BurstEvents = {}

\* The second sample of the sequence 50, 130.
C8_Witness ==
    /\ MusicFrameWithData
    /\ frame.start.lastBass = 50 * 15
    /\ frame.snapshot.bassSum = 130 * 15
    /\ Cardinality(BurstEvents) = 30

\* Exactly one event of each of the 7 agents, in the order of the agents.
OneEventPerAgent ==
    /\ Cardinality(AgentEvents) = 7
    /\ \A i \in 0..6 : frame.events[i + 1] = AgentEvent(i)

\* C9 as stated: every frame with an ambience selected emits one event for
\* each of the 7 agents.
C9_AsStated ==
    frame.ran /\ frame.ambienceMode # NULL => OneEventPerAgent

\* C9 amended: a frame with an ambience selected emits one event for each of
\* the 7 agents when the stream is flagged active, whether or not the pointer
\* moved, and no agent event when the stream is not flagged active.
C9_AgentsWhenActive ==
    frame.ran /\ frame.ambienceMode # NULL =>
        IF frame.isMusicActive THEN OneEventPerAgent ELSE AgentEvents = {}

\* An ambience frame with the stream active and the pointer at rest.
C9_Witness ==
    /\ frame.ran
    /\ frame.ambienceMode # NULL
    /\ frame.isMusicActive
    /\ ~frame.start.pointer.moved
    /\ OneEventPerAgent

\* C10: the music driver runs exactly in the frames with the stream flagged
\* active and no ambience selected, and only there are its events; its
\* snapshot is null exactly while the analyser does not exist, and a frame
\* with a null snapshot has no automated event, keeps the stored low-band
\* average, and still does the input interaction and the integration passes
\* up to the display source.
C10_NullSnapshot ==
    frame.ran =>
        /\ frame.snapshot.called <=>
              (frame.isMusicActive /\ frame.ambienceMode = NULL)
        /\ MusicEvents # {} => frame.snapshot.called /\ ~frame.snapshot.null
        /\ frame.snapshot.called => (frame.snapshot.null <=> ~isInitialized)
        /\ frame.snapshot.called /\ frame.snapshot.null =>
              /\ MusicEvents = {} /\ AgentEvents = {}
              /\ lastBass = frame.start.lastBass
              /\ PointerEvents = IF frame.start.pointer.moved THEN {1} ELSE {}
              /\ Len(frame.updates) = 1
              /\ NumPasses = 2 * NumEvents + Len(IntegrationOrder)
              /\ frame.passes[NumPasses].pass = "gradientSubtract"
              /\ displaySource = density[1]

\* A music frame without analyser in which the pointer had moved.
C10_Witness ==
    /\ frame.ran
    /\ frame.snapshot.called
    /\ frame.snapshot.null
    /\ frame.start.pointer.moved
    /\ PointerEvents = {1}
    /\ NumPasses = 2 + Len(IntegrationOrder)

\* ------------------------------------------------------------------- C11
\* C11 as stated: before the start action no simulation pass runs and no
\* forcing event is applied, a pointer move before start produces no splat.
C11_AsStated ==
    frame.ran /\ ~started => NumPasses = 0 /\ NumEvents = 0

\* C11: before the start action the audio engine is not initialized and no
\* stream is requested or flagged, so that a frame has no automated event and
\* its update call changes nothing in the audio service; the frame callback
\* itself runs from mount on: every frame before start draws the integration
\* passes and sets the display source, and a frame that follows a pointer
\* move applies that move's splat to velocity and density.
C11_BeforeStart ==
    ~started =>
        /\ ~isInitialized
        /\ ~isPlayingMusic
        /\ activeAmbience = NULL
        /\ ~musicElement.created
        /\ pending = <<>>
        /\ audio = AudioInitial
        /\ frame.ran =>
              /\ AgentEvents = {} /\ MusicEvents = {}
              /\ PointerEvents = IF frame.start.pointer.moved THEN {1} ELSE {}
              /\ NumPasses = 2 * NumEvents + Len(IntegrationOrder)
              /\ frame.start.pointer.moved =>
                    /\ frame.passes[1].pass = "splatVelocity"
                    /\ frame.passes[2].pass = "splatDensity"
              /\ displaySource = density[1]

\* A frame before the start action that applied the splat of a pointer move.
C11_Witness ==
    /\ ~started
    /\ frame.ran
    /\ frame.start.pointer.moved
    /\ PointerEvents = {1}
    /\ NumPasses = 2 + Len(IntegrationOrder)

\* ------------------------------------------------------------------- C12
\* The step called the method op of the service.
CallOf(op) == "call" \in DOMAIN frame' /\ frame'.call = op

\* The oscillator bank of a service state is the one of a preset: as many
\* oscillators, each with the preset's waveform, frequency and base detune.
BankMatches(a, type) ==
    LET oscillators == INSTRUMENTS[type].oscillators
    IN  /\ Len(a.oscs) = Len(oscillators)
        /\ \A i \in 1..Len(oscillators) :
              /\ a.oscs[i].type = oscillators[i].type
              /\ a.oscs[i].freq = oscillators[i].freq
              /\ a.oscs[i].detune = oscillators[i].detune

\* No context, no node, no oscillator.
NoGraph(a) ==
    /\ a.contexts = 0 /\ a.oscs = <<>> /\ a.live = 0
    /\ a.globalGain = NoNode /\ a.mainGain = NoNode
    /\ a.mainFilter = NoNode /\ a.delay = NoNode

\* C12: while the service is not initialized there is no oscillator and no
\* node; setInstrument(p) then changes the recorded preset to p and nothing
\* else, update(v) changes nothing, and no other method changes the recorded
\* preset; the step that initializes the service (init, or the init inside
\* playMusic) keeps the recorded preset and leaves the bank of that preset,
\* all its oscillators running, no parameter target scheduled.
C12_BeforeInit ==
    /\ [](~isInitialized => NoGraph(audio))
    /\ [][~isInitialized =>
            /\ CallOf("setInstrument") =>
                  /\ ~isInitialized'
                  /\ audio' = [audio EXCEPT !.currentType = frame'.arg]
            /\ CallOf("update") => ~isInitialized' /\ audio' = audio
            /\ ~CallOf("setInstrument") =>
                  audio'.currentType = audio.currentType
            /\ isInitialized' =>
                  /\ BankMatches(audio', audio.currentType)
                  /\ audio'.live = Len(audio'.oscs)
                  /\ \A i \in 1..Len(audio'.oscs) : ~audio'.oscs[i].wobble.set
                  /\ audio'.mainGain = [node |-> TRUE, op |-> "set", value |-> 0]
         ]_vars

\* The service right after an init that found it uninitialized with a preset
\* other than the default recorded.
C12_Witness ==
    /\ "call" \in DOMAIN frame
    /\ frame.call = "init"
    /\ frame.arg = FALSE
    /\ audio.currentType = "spark"
    /\ BankMatches(audio, "spark")
    /\ audio.live = 3

\* ------------------------------------------------------------------- C13
\* C13: when a playMusic attempt has failed (ctx.resume() or
\* musicElement.play() rejected), the service's playback flag is false
\* afterwards, whatever it was before the attempt.
C13_NotPlayingAfterFailure ==
    ~frame.ran /\ frame.settled = "rejected" => ~isMusicPlaying

\* ------------------------------------------------------------------- C14
\* C14: the service's mute flag and master volume are those of the last
\* setMute and setMasterVolume calls (no other method changes them), and
\* once the service is initialized the last value or target given to the
\* master gain is 0 when muted and the master volume when not: after init,
\* after a volume change made while muted, and after unmuting.
C14_MasterGain ==
    /\ [](/\ isInitialized <=> audio.globalGain.node
          /\ audio.globalGain.node =>
                audio.globalGain.level =
                    IF audio.isMuted THEN 0 ELSE audio.masterVolume)
    /\ [][/\ audio'.isMuted = IF CallOf("setMute") THEN frame'.arg
                              ELSE audio.isMuted
          /\ audio'.masterVolume = IF CallOf("setMasterVolume") THEN frame'.arg
                                   ELSE audio.masterVolume
         ]_vars

\* The initialized, muted service right after a volume change.
C14_Witness ==
    /\ isInitialized
    /\ "call" \in DOMAIN frame
    /\ frame.call = "setMasterVolume"
    /\ frame.arg = 100
    /\ audio.isMuted
    /\ audio.masterVolume = 100
    /\ audio.globalGain.level = 0

\* ------------------------------------------------------------------- C15
\* The bank setInstrument(type) leaves: the preset's oscillators, freshly
\* created (no detune target given yet), and no other oscillator running.
FreshBank(a, type) ==
    /\ BankMatches(a, type)
    /\ \A i \in 1..Len(a.oscs) : ~a.oscs[i].wobble.set
    /\ a.live = Len(a.oscs)

\* C15: on the initialized service the bank is always that of the current
\* preset, with no oscillator of an earlier preset left running; a
\* setInstrument(A) call leaves the fresh bank of A whatever the presets and
\* update calls before it; and from every reachable state, for all presets A
\* and B and update arguments v, setInstrument(A); update(v);
\* setInstrument(B); update(v); setInstrument(A) and setInstrument(A);
\* setInstrument(A) both leave the oscillators of a single setInstrument(A).
C15_BankOfPreset ==
    /\ [](isInitialized =>
            /\ BankMatches(audio, audio.currentType)
            /\ audio.live = Len(audio.oscs)
            /\ \A A \in InstrumentTypes, B \in InstrumentTypes,
                  v \in UpdateValues :
                  LET once == setInstrument(audio, TRUE, A)
                      updated == update(once, TRUE, v)
                      other == update(setInstrument(updated, TRUE, B), TRUE, v)
                      again == setInstrument(other, TRUE, A)
                      twice == setInstrument(once, TRUE, A)
                  IN  /\ again.oscs = once.oscs /\ again.live = once.live
                      /\ twice.oscs = once.oscs /\ twice.live = once.live
                      /\ BankMatches(updated, A) /\ BankMatches(other, B))
    /\ [][CallOf("setInstrument") /\ isInitialized =>
              FreshBank(audio', frame'.arg)]_vars

\* The initialized service right after setInstrument("drone"), called while
\* the bank of another preset was running with detune targets from update.
C15_Witness ==
    /\ isInitialized
    /\ "call" \in DOMAIN frame
    /\ frame.call = "setInstrument"
    /\ frame.arg = "drone"
    /\ frame.was = "spark"
    /\ frame.wobbling
    /\ FreshBank(audio, "drone")

\* ------------------------------------------------------------------- C16
\* C16: there is at most one audio element, one media-element source node
\* and one connection of a source to the analyser, and exactly one of each
\* once playMusic was called; the playMusic call that finds no element
\* creates them, and a call that finds the element creates nothing and
\* changes nothing in the graph: it gives the element its new source and goes
\* on to resume() and play().
C16_OneElement ==
    /\ [](/\ audio.elements = (IF musicElement.created THEN 1 ELSE 0)
          /\ audio.sources = audio.elements
          /\ audio.connects = audio.elements)
    /\ [][CallOf("playMusic") =>
            /\ musicElement' = [created |-> TRUE, paused |-> TRUE]
            /\ pending' = Append(pending, "resume")
            /\ isMusicPlaying' = isMusicPlaying
            /\ frame'.arg => audio' = audio
         ]_vars

\* The service right after a playMusic call that found the element of an
\* earlier call.
C16_Witness ==
    /\ "call" \in DOMAIN frame
    /\ frame.call = "playMusic"
    /\ frame.arg = TRUE
    /\ audio.elements = 1
    /\ audio.sources = 1
    /\ audio.connects = 1

\* ------------------------------------------------------------------- C17
\* C17: there is at most one audio context with its node graph, and exactly
\* one once the service is initialized, whichever of init and playMusic came
\* first; an init call on the initialized service changes nothing, and a
\* playMusic call on it creates no context and no node.
C17_OneContext ==
    /\ [](/\ audio.contexts = (IF isInitialized THEN 1 ELSE 0)
          /\ isInitialized <=>
                /\ audio.globalGain.node /\ audio.mainGain.node
                /\ audio.mainFilter.node /\ audio.delay.node)
    /\ [][/\ CallOf("init") /\ isInitialized =>
                UNCHANGED <<appVars, audioVars, fluidVars>>
          /\ CallOf("playMusic") /\ isInitialized =>
                /\ audio'.contexts = audio.contexts
                /\ audio'.oscs = audio.oscs
                /\ audio'.globalGain = audio.globalGain
                /\ audio'.mainGain = audio.mainGain
                /\ audio'.mainFilter = audio.mainFilter
                /\ audio'.delay = audio.delay
         ]_vars

\* The service right after a second init call, the first context having
\* been created by playMusic.
C17_Witness ==
    /\ "call" \in DOMAIN frame
    /\ frame.call = "init"
    /\ frame.arg = TRUE
    /\ musicElement.created
    /\ audio.contexts = 1

\* ------------------------------------------------------------------- C20
\* Pointer displacements per axis the clamp of the speed is checked on, in
\* pixels: around |delta| = 20.
Displacements == {-25, -20, -16, -12, -1, 0, 1, 12, 16, 20, 25}

\* The fraction u (a square) is the square of min(sqrt(dx^2 + dy^2) / 20, 1).
IsNormalizedSpeed(u, dx, dy) ==
    LET mag2 == dx * dx + dy * dy
    IN  /\ u[2] > 0
        /\ 0 <= u[1] /\ u[1] <= u[2]
        /\ IF mag2 >= 400 THEN u[1] = u[2]
           ELSE u[1] * 400 = mag2 * u[2]

\* C20: every frame calls update exactly once; the argument is
\* min(|delta| / 20, 1) of the stored pointer displacement, a value in
\* [0, 1], when the frame starts with the moved flag set (a move came since
\* the last frame), and 0 when it does not; on the initialized service the
\* call leaves the detune targets of that intensity.  The argument the frame
\* computes is min(|delta| / 20, 1) for displacements on both sides of
\* |delta| = 20 as well.
C20_OneUpdate ==
    /\ \A dx \in Displacements, dy \in Displacements :
          IsNormalizedSpeed(UpdateArg(dx, dy), dx, dy)
    /\ frame.ran =>
          LET p == frame.start.pointer
          IN  /\ Len(frame.updates) = 1
              /\ p.moved <=> frame.moves > 0
              /\ p.moved => IsNormalizedSpeed(frame.updates[1], p.dx, p.dy)
              /\ ~p.moved => frame.updates[1][1] = 0
              /\ isInitialized =>
                    \A i \in 1..Len(audio.oscs) :
                        /\ audio.oscs[i].wobble.set
                        /\ audio.oscs[i].wobble.intensity[1] * frame.updates[1][2]
                             = frame.updates[1][1] * audio.oscs[i].wobble.intensity[2]

\* A frame that followed a diagonal move, on the initialized service.
C20_Witness ==
    /\ frame.ran
    /\ isInitialized
    /\ frame.start.pointer.moved
    /\ frame.start.pointer.dx # 0
    /\ frame.start.pointer.dy # 0
    /\ Len(frame.updates) = 1
    /\ frame.updates[1][1] = 2

\* ------------------------------------------------------------------- C18
\* C18: the time step of both advection passes is 0.016 whatever delta the
\* frame callback was called with, and the velocity, density and pressure
\* fields a solver step leaves are those the same step leaves when called
\* with any other delta: from the same contents and with the same forcing
\* events, the fields do not depend on delta.
C18_DeltaIndependent ==
    frame.ran =>
        /\ \A ch \in {"x", "y", "z", "w"} :
              /\ frame.fields.density[ch].op = "advect"
              /\ frame.fields.density[ch].k =
                    <<DyeRes, 16, densityDissipation(frame.mode)>>
        /\ frame.fields.velocity.x.args[1].op = "advect"
        /\ frame.fields.velocity.x.args[1].k =
              <<SimRes, 16, velocityDissipation(frame.mode)>>
        /\ \A delta \in FrameDeltas :
              FieldsAfter(frame.start, frame.events, frame.mode, delta)
                  = frame.fields

\* A solver step called with a delta of 33 ms that applied a forcing event.
C18_Witness ==
    /\ frame.ran
    /\ frame.delta = 33
    /\ Len(frame.events) = 1
    /\ frame.events[1].force # <<0, 0>>
    /\ frame.fields.density.x.k[2] = 16

\* ------------------------------------------------------------------- C19
\* A forcing event with force (0, 0) and colour (0, 0, 0).
ZeroEvent(ev) == ev.force = <<0, 0>> /\ ev.color = <<0, 0, 0>>

HasZeroEvent == \E j \in 1..Len(frame.events) : ZeroEvent(frame.events[j])

\* The fields after the same solver step without its zero events.
WithoutZeroEvents ==
    FieldsAfter(frame.start,
                SelectSeq(frame.events, LAMBDA ev : ~ZeroEvent(ev)),
                frame.mode, frame.delta)

\* C19: after a frame that applied a forcing event with force (0, 0) and
\* colour (0, 0, 0), the velocity (x, y), the density (r, g, b) and the
\* pressure equal those after the same frame without the event, and so does
\* the whole velocity texture.  (Of the channels that carry no field
\* component, the alpha of the density texture is the advected constant 1
\* the splat pass wrote, where a frame without any splat has the advected
\* alpha of its start.)
C19_ZeroSplat ==
    frame.ran /\ HasZeroEvent =>
        /\ frame.fields.velocity = WithoutZeroEvents.velocity
        /\ frame.fields.pressure = WithoutZeroEvents.pressure
        /\ \A ch \in {"x", "y", "z"} :
              frame.fields.density[ch] = WithoutZeroEvents.density[ch]
        /\ frame.fields.density.w.args[1] = Const(1000)
        /\ (\A j \in 1..Len(frame.events) : ZeroEvent(frame.events[j])) =>
              WithoutZeroEvents.density.w.args[1]
                  = Atom(frame.start.density[1], 4)

\* A solver step that applied one zero event and nothing else: the dye is the
\* advected dye of the frame's start.
C19_Witness ==
    /\ frame.ran
    /\ Len(frame.events) = 1
    /\ ZeroEvent(frame.events[1])
    /\ frame.fields.velocity = WithoutZeroEvents.velocity
    /\ frame.fields.density.x.args[1] = Atom(frame.start.density[1], 1)

\* ------------------------------------------------------------------- C21
\* Values of one channel of a cell, in thousandths.
CellValues == {-2000, -1000, -1, 0, 1, 500, 1000, 3000}

Abs(n) == IF n < 0 THEN -n ELSE n

\* A dissipation factor (hundredths) lies in (0, 1], so the value it scales
\* does not grow in magnitude.
NonIncreasing(dissipation) ==
    /\ 0 < dissipation /\ dissipation <= 100
    /\ \A value \in CellValues :
          Abs(value * dissipation) <= Abs(value) * 100

\* C21: for the four modes and for the default branch both dissipation
\* factors lie in (0, 1]; the advection pass of the velocity and the one of
\* the density of every solver step multiply the sampled value by the
\* factor of the step's mode, so that a value sampled from the cell itself
\* (no incoming advection) does not grow in magnitude.
C21_Dissipation ==
    /\ \A mode \in FluidModes \cup {"default"} :
          /\ NonIncreasing(velocityDissipation(mode))
          /\ NonIncreasing(densityDissipation(mode))
    /\ frame.ran =>
          /\ \A ch \in {"x", "y", "z", "w"} :
                /\ frame.fields.density[ch].op = "advect"
                /\ frame.fields.density[ch].k[3] = densityDissipation(frame.mode)
                /\ NonIncreasing(frame.fields.density[ch].k[3])
          /\ frame.fields.velocity.x.args[1].op = "advect"
          /\ frame.fields.velocity.x.args[1].k[3] = velocityDissipation(frame.mode)
          /\ frame.fields.velocity.y.args[1].k[3] = velocityDissipation(frame.mode)
          /\ NonIncreasing(frame.fields.velocity.x.args[1].k[3])

\* A solver step in the ignite mode, whose density factor is the smallest.
C21_Witness ==
    /\ frame.ran
    /\ frame.mode = "ignite"
    /\ frame.fields.density.x.k[3] = 92
    /\ frame.fields.velocity.x.args[1].k[3] = 98

\* ------------------------------------------------------------------- C22
\* The passes of the last frame that render into a density buffer.
DensityPasses == {j \in 1..NumPasses : FieldOf(frame.passes[j].pass) = "density"}

\* C22: once a frame has run, the display material's source is the density
\* buffer at index 0 of the pair, at the end of the frame and until the next
\* one; it is the buffer the frame's last density pass rendered into, no
\* later pass of the frame renders into it, and the frame callback draws
\* nothing but the solver's passes: no pass of the display material renders
\* into a simulation buffer.
C22_DisplaySource ==
    /\ displaySource # NULL => displaySource = density[1]
    /\ frame.ran =>
          /\ displaySource = density[1]
          /\ DensityPasses # {}
          /\ \E last \in DensityPasses :
                /\ \A j \in DensityPasses : j <= last
                /\ frame.passes[last].pass = "advectDensity"
                /\ displaySource = frame.passes[last].write
                /\ \A j \in (last + 1)..NumPasses :
                      frame.passes[j].write # displaySource
          /\ \A j \in 1..NumPasses :
                frame.passes[j].pass \in
                    {"splatVelocity", "splatDensity"} \cup Range(IntegrationOrder)

\* A frame after which the display source is the buffer that was at index 1
\* of the density pair when the frame started.
C22_Witness ==
    /\ frame.ran
    /\ frame.start.display # NULL
    /\ displaySource = frame.start.density[2]
    /\ displaySource # frame.start.display

\* ------------------------------------------------------------------- C24
\* The divergence with the boundary condition of the claim: the component
\* of a neighbour outside the domain is the negation of the cell's own.
OutsideLeft(c) == c[1] = 0
OutsideRight(c) == c[1] = GridSize - 1
OutsideTop(c) == c[2] = GridSize - 1
OutsideBottom(c) == c[2] = 0

DivergenceWithBoundary(uVelocity, c) ==
    LET C == uVelocity[c]
        L == IF OutsideLeft(c) THEN 0 - C[1] ELSE uVelocity[<<c[1] - 1, c[2]>>][1]
        R == IF OutsideRight(c) THEN 0 - C[1] ELSE uVelocity[<<c[1] + 1, c[2]>>][1]
        T == IF OutsideTop(c) THEN 0 - C[2] ELSE uVelocity[<<c[1], c[2] + 1>>][2]
        B == IF OutsideBottom(c) THEN 0 - C[2] ELSE uVelocity[<<c[1], c[2] - 1>>][2]
    IN  R - L + T - B

DivergencePassRan == "written" \in DOMAIN frame

OnEdge(c) == OutsideLeft(c) \/ OutsideRight(c) \/ OutsideTop(c) \/ OutsideBottom(c)

\* C24: in the divergence pass, a cell on one of the four edges of the
\* domain takes the component of its missing outside neighbour as the
\* negation of its own component (-C.x left and right, -C.y top and bottom).
C24_EdgeNegation ==
    DivergencePassRan =>
        \A c \in Cells :
            OnEdge(c) => frame.written[c] = DivergenceWithBoundary(frame.uVelocity, c)

\* What the pass writes at an edge cell: the outside neighbour is the edge
\* texel itself (clamp to edge), the four tests on vUv never hold.
C24_EdgeClamped ==
    DivergencePassRan =>
        \A c \in Cells :
            LET v == frame.uVelocity
                C == v[c]
                L == IF OutsideLeft(c) THEN C[1] ELSE v[<<c[1] - 1, c[2]>>][1]
                R == IF OutsideRight(c) THEN C[1] ELSE v[<<c[1] + 1, c[2]>>][1]
                T == IF OutsideTop(c) THEN C[2] ELSE v[<<c[1], c[2] + 1>>][2]
                B == IF OutsideBottom(c) THEN C[2] ELSE v[<<c[1], c[2] - 1>>][2]
            IN  frame.written[c] = R - L + T - B

\* ------------------------------------------------------------------- C23
FlowStepped == "flow" \in DOMAIN frame /\ frame.flow.steps >= 1

C23_ProjectionIdle ==
    FlowStepped =>
        /\ frame.flow.after = frame.flow.divergence
        /\ frame.flow.after.lo <= frame.flow.after.hi
        /\ frame.flow.pressure.lo <= frame.flow.pressure.hi

\* ------------------------------------------------------------------- C25
\* The argument of update is kept as its square <<numerator, denominator>>:
\* min(v, 1.2), and whether it exceeds 0.001.
UpToMax(v) == IF 100 * v[1] > 144 * v[2] THEN <<144, 100>> ELSE v
AboveRest(v) == 1000000 * UpToMax(v)[1] > UpToMax(v)[2]

UpdateOnEngine == CallOf("update") /\ isInitialized

\* The gain target of an update with a value above rest: base + min(v, 1.2)
\* * mod, ramped with the attack time constant of the preset.
ActiveGainTarget ==
    LET gain == INSTRUMENTS[audio.currentType].gain
        g == audio'.mainGain
    IN  /\ g.op = "target"
        /\ g.base = gain.base /\ g.mod = gain.mod
        /\ g.intensity = UpToMax(frame'.arg)
        /\ g.ramp = gain.attack

SilenceTarget == audio'.mainGain.op = "target" /\ audio'.mainGain.base = 0 /\ audio'.mainGain.mod = 0

\* C25: update(v) on an initialized engine targets gain base + min(v, 1.2) *
\* mod with the preset's attack time constant when min(v, 1.2) > 0.001, and
\* otherwise targets gain 0 with a release time constant strictly greater
\* than the attack time constant, for every one of the four presets.
C25_AsStated ==
    [][UpdateOnEngine =>
          IF AboveRest(frame'.arg) THEN ActiveGainTarget
          ELSE /\ SilenceTarget
               /\ audio'.mainGain.ramp > INSTRUMENTS[audio.currentType].gain.attack]_vars

\* C25 as the code has it: the release time constant is 0.5 s for every
\* preset; it is greater than the attack time constant of flux, drone and
\* spark and equal to the attack time constant of orbit.
C25_ReleaseHalfSecond ==
    [][UpdateOnEngine =>
          IF AboveRest(frame'.arg) THEN ActiveGainTarget
          ELSE LET attack == INSTRUMENTS[audio.currentType].gain.attack
               IN  /\ SilenceTarget
                   /\ audio'.mainGain.ramp = 50
                   /\ audio.currentType = "orbit" => attack = audio'.mainGain.ramp
                   /\ audio.currentType # "orbit" => attack < audio'.mainGain.ramp]_vars

C25_Witness ==
    /\ isInitialized
    /\ "call" \in DOMAIN frame /\ frame.call = "update"
    /\ ~AboveRest(frame.arg)
    /\ audio.currentType = "orbit"
    /\ audio.mainGain.op = "target" /\ audio.mainGain.ramp = 50

\* ------------------------------------------------------------------- C26
\* A step of the move listener: it leaves the moved and the down flag set.
MoveStep ==
    /\ ~frame'.ran
    /\ pointer'.moved /\ pointer'.down
    /\ pointer' # pointer \/ moves' # moves

\* lastMove is the position of the last move event, (0, 0) before the first.
StoredPosition == <<pointer.x, pointer.y>>

\* C26: the delta of the pointer event of a frame is the displacement
\* between the last two move events only: the last move's position minus the
\* position stored by the move before it, whatever moves and frames came
\* earlier; before the first move the stored position is (0, 0), so the
\* first move's delta is its absolute client coordinates.
C26_LastTwoMoves ==
    /\ StoredPosition = <<0, 0>> /\ lastMove = <<0, 0>>
    /\ [][/\ StoredPosition = lastMove
          /\ MoveStep =>
                /\ lastMove' = <<pointer'.x, pointer'.y>>
                /\ pointer'.dx = lastMove'[1] - lastMove[1]
                /\ pointer'.dy = lastMove'[2] - lastMove[2]
          /\ frame'.ran /\ pointer.moved =>
                \E j \in 1..Len(frame'.events) :
                    /\ frame'.events[j].kind = "pointer"
                    /\ frame'.events[j].force[1] = PointerGain * pointer.dx
                    /\ frame'.events[j].force[2] = PointerGain * pointer.dy
                    /\ \A k \in 1..Len(frame'.events) :
                          frame'.events[k].kind = "pointer" => k = j]_vars

\* A frame after two moves since the frame before it, the delta of its
\* pointer event being the step between the two, not the position.
C26_Witness ==
    /\ frame.ran
    /\ frame.moves >= 2
    /\ PointerEvents # {}
    /\ frame.start.pointer.dx # 0
    /\ frame.start.pointer.dx # frame.start.pointer.x
    /\ \A j \in PointerEvents :
          frame.events[j].force[1] = PointerGain * frame.start.pointer.dx

\* ------------------------------------------------------------------- C27
TrailEvents == EventsOfKind({"trail"})

\* C27: in a frame of the music driver with frequency data the automated
\* events are one trail event if the average over all bins is above 2, then
\* 30 burst events if a drop is detected, and no other; with the pointer
\* event a frame applies at most 32 splats in music mode and at most 8 in
\* ambience mode.
C27_SplatCount ==
    frame.ran =>
        /\ MusicFrameWithData =>
              LET bass == frame.snapshot.bassSum
                  vol == frame.snapshot.volSum
                  last == frame.start.lastBass
                  drop == bass > 110 * BassBins /\ bass - last > 20 * BassBins
              IN  /\ Cardinality(TrailEvents) = IF vol > 2 * FrequencyBinCount THEN 1 ELSE 0
                  /\ Cardinality(BurstEvents) = IF drop THEN 30 ELSE 0
                  /\ AgentEvents = {}
                  /\ NumEvents = Cardinality(TrailEvents) + Cardinality(BurstEvents)
                                    + Cardinality(PointerEvents)
                  /\ \A t \in TrailEvents, b \in BurstEvents : t < b
        /\ Cardinality(PointerEvents) <= 1
        /\ frame.isMusicActive /\ frame.ambienceMode = NULL => NumEvents <= 32
        /\ frame.isMusicActive /\ frame.ambienceMode # NULL => NumEvents <= 8

\* A music frame with the trail, the burst and the pointer event.
C27_Witness ==
    /\ MusicFrameWithData
    /\ TrailEvents = {1}
    /\ Cardinality(BurstEvents) = 30
    /\ PointerEvents = {32}
    /\ NumEvents = 32

\* An ambience frame with the seven agents and the pointer event.
C27_AmbienceFull ==
    /\ frame.ran /\ frame.isMusicActive /\ frame.ambienceMode # NULL
    /\ NumEvents = 8

\* ------------------------------------------------------------------- C28
\* A step of one of the two pointer listeners: the pointer record changes
\* outside a frame callback.
ListenerStep == ~frame'.ran /\ pointer' # pointer

UpStep == ListenerStep /\ ~pointer'.down

\* C28: the move and up listeners modify only the pointer state record,
\* never a simulation buffer, a buffer role or audio state; the up listener
\* changes only the down flag, so a move followed by an up before the next
\* frame still yields that frame's pointer event.
C28_ListenersOnlyPointer ==
    [][/\ ListenerStep =>
             UNCHANGED <<appVars, audioVars, velocity, density, pressure,
                         lastBass, displaySource>>
       /\ UpStep => pointer' = [pointer EXCEPT !.down = FALSE]
       /\ frame'.ran /\ pointer.moved /\ ~pointer.down =>
             \E j \in 1..Len(frame'.events) :
                 /\ frame'.events[j].kind = "pointer"
                 /\ frame'.events[j].force =
                        <<PointerGain * pointer.dx, PointerGain * pointer.dy>>]_vars

\* A frame after a move and an up: the pointer is up, the event is there.
C28_Witness ==
    /\ frame.ran
    /\ frame.start.pointer.moved
    /\ ~frame.start.pointer.down
    /\ frame.start.pointer.dx # 0
    /\ PointerEvents # {}

\* ------------------------------------------------------------------- C29
\* The order of a field's pair before the first pass of the frame.
PairFrom(j, field) == IF j = 0 THEN frame.start[field] ELSE PairAt(j, field)

\* The reversals of a field's pair in the frame: the places, between two
\* draws or around the first and the last, where the order changes.
Swaps(field) ==
    Cardinality({j \in 0..NumPasses : PairFrom(j, field) # PairAt(j + 1, field)})

WritesOf(buffer) == {j \in 1..NumPasses : frame.passes[j].write = buffer}

\* C29: a frame with s splats reverses the velocity pair exactly 2 + s
\* times, the density pair exactly 1 + s times and the pressure pair exactly
\* 20 times, so that the same pressure buffer is the active one at every
\* frame boundary; the divergence buffer is written exactly once and belongs
\* to no pair.
C29_SwapCounts ==
    /\ pressure = <<"p0", "p1">>
    /\ divergence \notin Range(velocity) \cup Range(density) \cup Range(pressure)
    /\ frame.ran =>
        /\ Swaps("velocity") = 2 + NumEvents
        /\ Swaps("density") = 1 + NumEvents
        /\ Swaps("pressure") = 20
        /\ pressure = frame.start.pressure
        /\ Cardinality(WritesOf(divergence)) = 1
        /\ \A j \in WritesOf(divergence) : frame.passes[j].pass = "divergence"
        /\ \A j \in 1..NumPasses :
              divergence \notin Range(frame.passes[j].velocity)
                  \cup Range(frame.passes[j].density)
                  \cup Range(frame.passes[j].pressure)

\* A frame with an odd number of splats: velocity ends reversed, density
\* ends as it started.
C29_Witness ==
    /\ frame.ran
    /\ NumEvents = 1
    /\ Swaps("velocity") = 3
    /\ velocity # frame.start.velocity
    /\ density = frame.start.density

\* ------------------------------------------------------------------- C30
\* The buffers whose start contents a channel is computed from.
RECURSIVE AtomsOf(_)
AtomsOf(t) ==
    IF t.args = <<>> THEN IF t.op = "const" THEN {} ELSE {t.op}
    ELSE UNION {AtomsOf(t.args[i]) : i \in 1..Len(t.args)}

AtomsOfTexture(tex) == AtomsOf(tex.x) \cup AtomsOf(tex.y) \cup AtomsOf(tex.z) \cup AtomsOf(tex.w)

\* The run every run with the same start, positions, forces, radii and
\* velocity dissipation is compared with: its splats are black and its mode
\* is one fixed mode with that velocity dissipation.
Uncoloured ==
    [j \in 1..Len(frame.events) |-> [frame.events[j] EXCEPT !.color = <<0, 0, 0>>]]

ModeOfDissipation(d) == CHOOSE m \in FluidModes : velocityDissipation(m) = d

ReferenceRun ==
    FieldsAfter(frame.start, Uncoloured,
                ModeOfDissipation(velocityDissipation(frame.mode)), frame.delta)

\* C30: the velocity and the pressure field never depend on the density
\* field or on the splat colours: a run with the same positions, force
\* vectors, radii and velocity dissipation has the same velocity and
\* pressure whatever its colours (and its density dissipation) are, and no
\* channel of the two is computed from a density buffer.
C30_ColourBlind ==
    frame.ran =>
        /\ frame.fields.velocity = ReferenceRun.velocity
        /\ frame.fields.pressure = ReferenceRun.pressure
        /\ AtomsOfTexture(frame.fields.velocity) \cap {"d0", "d1"} = {}
        /\ AtomsOfTexture(frame.fields.pressure) \cap {"d0", "d1"} = {}

\* A step with a coloured splat that pushes, in a mode that shares its
\* velocity dissipation with another: the dye differs from the reference
\* run's, the velocity does not.
C30_Witness ==
    /\ frame.ran
    /\ Len(frame.events) >= 1
    /\ frame.events[1].color # <<0, 0, 0>>
    /\ frame.events[1].force # <<0, 0>>
    /\ frame.mode # ModeOfDissipation(velocityDissipation(frame.mode))
    /\ frame.fields.density # ReferenceRun.density
    /\ frame.fields.velocity = ReferenceRun.velocity

\* ------------------------------------------------------------------- C31
\* The frame callback of the step ran the music driver on frequency data.
DriverRanOnData ==
    /\ frame'.ran
    /\ frame'.snapshot.called
    /\ ~frame'.snapshot.null

\* C31: a frame in which the music driver does not run (no stream flagged
\* active, an ambience mode selected, or a null snapshot) leaves the stored
\* low-band average unchanged, and so does every step that is no frame; the
\* first music-driver frame after such a gap compares its low-band average
\* with the value from before the gap, 0 if the driver has never run.
C31_GapKeepsLastBass ==
    /\ lastBass = 0
    /\ [][/\ ~DriverRanOnData => lastBass' = lastBass
          /\ frame'.ran /\ ~frame'.isMusicActive => ~frame'.snapshot.called
          /\ frame'.ran /\ frame'.ambienceMode # NULL => ~frame'.snapshot.called
          /\ DriverRanOnData =>
                LET bass == frame'.snapshot.bassSum
                    burst == {j \in 1..Len(frame'.events) :
                                 frame'.events[j].kind = "burst"}
                IN  /\ lastBass' = bass
                    /\ frame'.start.lastBass = lastBass
                    /\ burst # {} <=>
                          /\ bass > 110 * BassBins
                          /\ bass - lastBass > 20 * BassBins]_vars

\* An ambience frame after the music driver stored a low-band average.
C31_Witness ==
    /\ frame.ran
    /\ frame.isMusicActive
    /\ frame.ambienceMode # NULL
    /\ ~frame.snapshot.called
    /\ frame.start.lastBass > 0
    /\ lastBass = frame.start.lastBass

\* ------------------------------------------------------------------- C32
\* C32: once every UI action and the playMusic attempt it started have
\* settled, the UI's playing flag equals the engine's, after any sequence of
\* upload, demo, ambience and pause/resume actions, including attempts that
\* fail.
C32_FlagsAgree == pending = <<>> => isPlayingMusic = isMusicPlaying

\* ------------------------------------------------------------------- C33
\* The element plays its current source.
SourcePlaying ==
    /\ musicElement.created
    /\ ~musicElement.paused
    /\ musicElement.src.playable

\* Two calls overlapped, no third joined them, and both have settled.
OverlapSettled == pending = <<>> /\ "group" \in DOMAIN frame /\ frame.group = 2

\* C33: when a second playMusic call is issued while an earlier one is still
\* awaiting its resume() or play(), after both have settled the element's
\* source is the second call's and the engine's playback flag tells whether
\* that source is playing.
C33_SecondSourceWins ==
    OverlapSettled =>
        /\ musicElement.src = frame.last
        /\ isMusicPlaying <=> SourcePlaying

\* What holds of overlapping calls: the source is the second call's, and the
\* flag tells whether it is playing when the flag was false before the two
\* calls; a flag that was true stays true.
C33_FlagFromFalse ==
    OverlapSettled =>
        /\ musicElement.src = frame.last
        /\ ~frame.flagBefore => (isMusicPlaying <=> SourcePlaying)
        /\ frame.flagBefore => isMusicPlaying

\* The late completion of the earlier call set the flag for the second
\* call's source.
C33_LateCompletion ==
    /\ OverlapSettled
    /\ ~frame.flagBefore
    /\ frame.settled = "resolved"
    /\ isMusicPlaying /\ SourcePlaying

\* ------------------------------------------------------------------ C34

\* The oscillator configurations the current preset lists.
ListedOscillators == INSTRUMENTS[audio.currentType].oscillators

\* The wobble an update gave the oscillator at position i of the bank: the
\* base detune of the configuration at the same position, pushed up at even
\* indices of the source's zero-based array and down at odd ones.
WobbleFromConfig(i) ==
    LET w == audio'.oscs[i].wobble
    IN  /\ w.set
        /\ w.base = ListedOscillators[i].detune
        /\ w.dir = (IF (i - 1) % 2 = 0 THEN 1 ELSE -1)

\* C34: whenever the engine is initialized the bank holds exactly as many
\* oscillators as the current preset lists, through every interleaving of
\* setInstrument and update calls; so each oscillator an update visits has
\* a configuration at its index, and its wobble is that configuration's
\* detune moved up for even and down for odd indices.
C34_BankSizeOfPreset ==
    /\ [](isInitialized => Len(audio.oscs) = Len(ListedOscillators))
    /\ [][UpdateOnEngine =>
             /\ Len(audio'.oscs) = Len(audio.oscs)
             /\ \A i \in 1..Len(audio.oscs) :
                   /\ i \in DOMAIN ListedOscillators
                   /\ WobbleFromConfig(i)]_vars

\* An update on the initialized engine after the preset was changed: the
\* second oscillator wobbles downwards from the new preset's detune.
C34_Witness ==
    /\ isInitialized
    /\ "call" \in DOMAIN frame /\ frame.call = "update"
    /\ audio.currentType # "flux"
    /\ Len(audio.oscs) = Len(ListedOscillators)
    /\ audio.oscs[2].wobble.set
    /\ audio.oscs[2].wobble.dir = -1
    /\ audio.oscs[2].wobble.base = ListedOscillators[2].detune

====
